---- MODULE Spec2Model ----

(***************************************************************************)
(* A model of the reactive graph engine of samara-signals                  *)
(* (crates/signals/src/system/*.rs): the node and link arenas, the         *)
(* tracking protocol, propagate / check_dirty / shallow_propagate, the     *)
(* notify queue and flush, and the scope lifecycle.                        *)
(*                                                                         *)
(* The engine is re-entrant: user closures (getters, effect bodies) call   *)
(* back into it.  Every engine function is an operator from a system       *)
(* record to a system record; a loop of the source is a RECURSIVE operator *)
(* over the loop's variables.  User closures are small programs that are   *)
(* interpreted against the system record (Eval, Exec).                     *)
(***************************************************************************)
EXTENDS Integers, Sequences, FiniteSets, TLC

VARIABLES nodes, links, cycle, batch_depth, notify_index, queued_length,
          queued, stack, active_sub, current_scope, cleanups,
          next_node, next_link, panic, log, handles, scenario, pc, ops, lastop,
          before, lastop2, before2, written, triggers, log2, disposed,
          prior, base, stale, stale0, contexts, factories, borrow_state, guards,
          tasks, cancelled, cancelled0, visited, entered

vars == <<nodes, links, cycle, batch_depth, notify_index, queued_length,
          queued, stack, active_sub, current_scope, cleanups,
          next_node, next_link, panic, log, handles, scenario, pc, ops, lastop,
          before, lastop2, before2, written, triggers, log2, disposed,
          prior, base, stale, stale0, contexts, factories, borrow_state, guards,
          tasks, cancelled, cancelled0, visited, entered>>

(***************************************************************************)
(* Bounds of the exploration.                                              *)
(***************************************************************************)
MaxVal == 1
MaxOps == 4
MaxBatch == 2
MaxNest == 2

(***************************************************************************)
(* Keys and options.  A key is a positive integer that is never reused     *)
(* (generational slot-map keys); Option::None is 0.                        *)
(***************************************************************************)
None == 0
NoVal == -1
Root == 1
NoPanic == "none"

(***************************************************************************)
(* ReactiveFlags: a bitset, modelled as a set of bit names.                *)
(***************************************************************************)
NONE == {}
MUTABLE == {"MUTABLE"}
WATCHING == {"WATCHING"}
RECURSED_CHECK == {"RECURSED_CHECK"}
RECURSED == {"RECURSED"}
DIRTY == {"DIRTY"}
PENDING == {"PENDING"}

contains(flags, other) == other \subseteq flags
intersects(flags, other) == (flags \cap other) # {}
is_empty(flags) == flags = {}
remove(flags, other) == flags \ other

(***************************************************************************)
(* The system record.                                                      *)
(***************************************************************************)
Sys ==
  [nodes |-> nodes, links |-> links, cycle |-> cycle, batch_depth |-> batch_depth,
   notify_index |-> notify_index, queued_length |-> queued_length,
   queued |-> queued, stack |-> stack, active_sub |-> active_sub,
   current_scope |-> current_scope, cleanups |-> cleanups,
   next_node |-> next_node, next_link |-> next_link, panic |-> panic, log |-> <<>>,
   triggers |-> triggers, running |-> <<>>, contexts |-> contexts,
   factories |-> factories, borrow_state |-> borrow_state, guards |-> guards,
   tasks |-> tasks, visits |-> <<>>, entries |-> <<>>]

Commit(s) ==
  /\ nodes' = s.nodes
  /\ links' = s.links
  /\ cycle' = s.cycle
  /\ batch_depth' = s.batch_depth
  /\ notify_index' = s.notify_index
  /\ queued_length' = s.queued_length
  /\ queued' = s.queued
  /\ stack' = s.stack
  /\ active_sub' = s.active_sub
  /\ current_scope' = s.current_scope
  /\ cleanups' = s.cleanups
  /\ next_node' = s.next_node
  /\ next_link' = s.next_link
  /\ panic' = s.panic
  /\ log' = s.log
  /\ triggers' = s.triggers
  /\ contexts' = s.contexts
  /\ factories' = s.factories
  /\ borrow_state' = s.borrow_state
  /\ guards' = s.guards
  /\ tasks' = s.tasks

ReactiveNode_new(kind, flags, parent) ==
  [kind |-> kind, flags |-> flags,
   deps |-> None, deps_tail |-> None, subs |-> None, subs_tail |-> None,
   parent |-> parent, child |-> None, next |-> None, prev |-> None,
   value |-> NoVal, pval |-> NoVal, memo |-> FALSE, body |-> <<>>, env |-> <<>>]

Ok(s) == s.panic = NoPanic
Panic(s, msg) == IF Ok(s) THEN [s EXCEPT !.panic = msg] ELSE s
Emit(s, e) == [s EXCEPT !.log = Append(@, e)]

(* what the engine's state is at a point inside an operation *)
Note(s, e) == [s EXCEPT !.entries = Append(@, e)]

RECURSIVE WalkLinks(_, _, _, _)
WalkLinks(ls, lk, field, n) ==
  IF lk = None \/ n = 0 \/ lk \notin DOMAIN ls THEN <<>>
  ELSE <<lk>> \o WalkLinks(ls, ls[lk][field], field, n - 1)

deps_list(s, k) ==
  WalkLinks(s.links, s.nodes[k].deps, "next_dep", Cardinality(DOMAIN s.links) + 1)
subs_list(s, k) ==
  WalkLinks(s.links, s.nodes[k].subs, "next_sub", Cardinality(DOMAIN s.links) + 1)

(* the signals and computeds *)
SourcesOf(s) == {k \in DOMAIN s.nodes : s.nodes[k].kind \in {"Signal", "Computed"}}

(* a read of node by the evaluation that is the active subscriber *)
Tracked(s, node) == Note(s, [tag |-> "read", dep |-> node, by |-> s.active_sub])

(* the return of an operation that began in the state old: the active    *)
(* subscriber and the current scope before it and after it                 *)
Restored(s, op, old) ==
  IF ~Ok(s) THEN s
  ELSE Note(s, [tag |-> "ctx", op |-> op,
                sub0 |-> old.active_sub, scope0 |-> old.current_scope,
                sub |-> s.active_sub, scope |-> s.current_scope])

(* the end of a tracking pass of node that began after the first n notes:  *)
(* the sources it read, those with a link in its dependency list, and      *)
(* those whose subscriber list leads to it                                 *)
PassEnd(s, node, n) ==
  Note(s, [tag |-> "pass", node |-> node,
           reads |-> {s.entries[i].dep : i \in {j \in n + 1..Len(s.entries) :
                         s.entries[j].tag = "read" /\ s.entries[j].by = node}},
           deps |-> {s.links[deps_list(s, node)[i]].dep : i \in 1..Len(deps_list(s, node))}
                      \cap SourcesOf(s),
           marks |-> {d \in SourcesOf(s) :
                        \E i \in 1..Len(subs_list(s, d)) :
                           s.links[subs_list(s, d)[i]].sub = node}])

RemoveKey(f, k) == [x \in (DOMAIN f) \ {k} |-> f[x]]

nodes_insert(s, node) ==
  [s EXCEPT !.nodes = (s.next_node :> node) @@ @, !.next_node = @ + 1]

nodes_remove(s, k) == [s EXCEPT !.nodes = RemoveKey(@, k)]

(***************************************************************************)
(* system/lifecycle.rs: the parent/child tree.                             *)
(***************************************************************************)
link_child(s, child) ==
  LET parent == s.nodes[child].parent
  IN IF parent = None THEN s
     ELSE IF parent \notin DOMAIN s.nodes THEN Panic(s, "UB: stale node key")
     ELSE LET head == s.nodes[parent].child
              s1 == IF head # None THEN [s EXCEPT !.nodes[head].prev = child] ELSE s
          IN [s1 EXCEPT !.nodes[child].next = head,
                        !.nodes[child].prev = None,
                        !.nodes[parent].child = child]

unlink_child(s, child) ==
  LET parent == s.nodes[child].parent
      prev == s.nodes[child].prev
      next == s.nodes[child].next
      s1 == IF prev # None THEN [s EXCEPT !.nodes[prev].next = next] ELSE s
      s2 == IF next # None THEN [s1 EXCEPT !.nodes[next].prev = prev] ELSE s1
      s3 == IF parent # None /\ s2.nodes[parent].child = child
            THEN [s2 EXCEPT !.nodes[parent].child = next] ELSE s2
  IN [s3 EXCEPT !.nodes[child].prev = None, !.nodes[child].next = None]

(***************************************************************************)
(* system/links.rs and system/propagation.rs: link maintenance.            *)
(***************************************************************************)
link(s, dep, sub, version) ==
  LET prev_dep == s.nodes[sub].deps_tail
  IN IF prev_dep # None /\ s.links[prev_dep].dep = dep THEN s
     ELSE
       LET next_dep == IF prev_dep # None THEN s.links[prev_dep].next_dep
                       ELSE s.nodes[sub].deps
       IN IF next_dep # None /\ s.links[next_dep].dep = dep
          THEN [s EXCEPT !.links[next_dep].version = version,
                         !.nodes[sub].deps_tail = next_dep]
          ELSE
            LET prev_sub == s.nodes[dep].subs_tail
            IN IF prev_sub # None /\ s.links[prev_sub].version = version
                  /\ s.links[prev_sub].sub = sub
               THEN s
               ELSE
                 LET new_link == s.next_link
                     l == [version |-> version, dep |-> dep, sub |-> sub,
                           prev_dep |-> prev_dep, next_dep |-> next_dep,
                           prev_sub |-> prev_sub, next_sub |-> None]
                     s1 == [s EXCEPT !.links = (new_link :> l) @@ @,
                                     !.next_link = @ + 1]
                     s2 == [s1 EXCEPT !.nodes[sub].deps_tail = new_link]
                     s3 == [s2 EXCEPT !.nodes[dep].subs_tail = new_link]
                     s4 == IF next_dep # None
                           THEN [s3 EXCEPT !.links[next_dep].prev_dep = new_link] ELSE s3
                     s5 == IF prev_dep # None
                           THEN [s4 EXCEPT !.links[prev_dep].next_dep = new_link]
                           ELSE [s4 EXCEPT !.nodes[sub].deps = new_link]
                 IN IF prev_sub # None
                    THEN [s5 EXCEPT !.links[prev_sub].next_sub = new_link]
                    ELSE [s5 EXCEPT !.nodes[dep].subs = new_link]

(* A call of one method of the system by another, or of a user closure,    *)
(* is written Call("method", s, <<arguments>>); Call is defined below, once *)
(* all methods are.                                                         *)
RECURSIVE Call(_, _, _)

RECURSIVE unlink(_, _), unwatched(_, _), purge_deps_loop(_, _), purge_child_loop(_, _)
RECURSIVE purge_scope(_, _), purge_subs_loop(_, _)

(* the while loop of purge_deps and of trigger's unlinking *)
purge_deps_loop(s, current) ==
  IF current = None \/ ~Ok(s) THEN s
  ELSE IF current \notin DOMAIN s.links THEN Panic(s, "UB: stale link key")
  ELSE purge_deps_loop(Call("unlink", s, <<current>>), s.links[current].next_dep)

purge_deps(s, sub, purge_tail) ==
  IF sub \notin DOMAIN s.nodes THEN s
  ELSE LET deps == s.nodes[sub].deps
           deps_tail == s.nodes[sub].deps_tail
           current == IF purge_tail THEN deps
                      ELSE IF deps_tail # None /\ deps_tail \in DOMAIN s.links
                           THEN s.links[deps_tail].next_dep
                           ELSE deps
       IN purge_deps_loop(s, current)

purge_subs_loop(s, current) ==
  IF current = None \/ ~Ok(s) THEN s
  ELSE IF current \notin DOMAIN s.links THEN Panic(s, "UB: stale link key")
  ELSE purge_subs_loop(Call("unlink", s, <<current>>), s.links[current].next_sub)

purge_subs(s, dep) == purge_subs_loop(s, s.nodes[dep].subs)

purge_node(s, node) == Call("purge_subs", Call("purge_deps", s, <<node, TRUE>>), <<node>>)

purge_child_loop(s, current) ==
  IF current = None \/ ~Ok(s) THEN s
  ELSE LET child == current
           nxt == s.nodes[child].next
           s1 == IF s.nodes[child].kind \in {"Effect", "None"}
                 THEN Call("purge_scope", s, <<child>>)
                 ELSE Call("purge_node", s, <<child>>)
       IN purge_child_loop(nodes_remove(s1, child), nxt)

(* Emptying the child list without freeing the children. *)
forget_children(s, node) == [s EXCEPT !.nodes[node].child = None]

purge_child(s, node) ==
  LET s1 == purge_child_loop(s, s.nodes[node].child)
  IN IF Ok(s1) THEN [s1 EXCEPT !.nodes[node].child = None] ELSE s1

(* Purging the links of the node only, leaving its children alone. *)
purge_own_links(s, node) ==
  LET s2 == [s EXCEPT !.nodes[node].deps_tail = None, !.nodes[node].flags = NONE]
      s3 == Call("purge_deps", s2, <<node, FALSE>>)
      subs == s3.nodes[node].subs
  IN IF ~Ok(s3) THEN s3
     ELSE IF subs # None THEN Call("unlink", s3, <<subs>>) ELSE s3

purge_scope(s, node) ==
  LET s1 == Call("purge_child", s, <<node>>)
      s2 == [s1 EXCEPT !.nodes[node].deps_tail = None, !.nodes[node].flags = NONE]
      s3 == Call("purge_deps", s2, <<node, FALSE>>)
      subs == s3.nodes[node].subs
  IN IF ~Ok(s1) THEN s1
     ELSE IF ~Ok(s3) THEN s3
     ELSE IF subs # None THEN Call("unlink", s3, <<subs>>) ELSE s3

unwatched_keep(s, node) ==
  IF ~contains(s.nodes[node].flags, MUTABLE) THEN Call("purge_scope", s, <<node>>)
  ELSE s

unwatched_demote(s, node) ==
  IF ~contains(s.nodes[node].flags, MUTABLE) THEN Call("purge_scope", s, <<node>>)
  ELSE IF s.nodes[node].deps_tail # None
       THEN Call("purge_deps",
                 [s EXCEPT !.nodes[node].deps_tail = None,
                           !.nodes[node].flags = DIRTY],
                 <<node, FALSE>>)
       ELSE s

unwatched(s, node) ==
  IF ~contains(s.nodes[node].flags, MUTABLE) THEN Call("purge_scope", s, <<node>>)
  ELSE IF s.nodes[node].deps_tail # None
       THEN Call("purge_deps",
                 [s EXCEPT !.nodes[node].deps_tail = None,
                           !.nodes[node].flags = MUTABLE \cup DIRTY],
                 <<node, FALSE>>)
       ELSE s

unlink(s, lk) ==
  IF ~Ok(s) \/ lk \notin DOMAIN s.links THEN s
  ELSE
    LET l == s.links[lk]
        s0 == [s EXCEPT !.links = RemoveKey(@, lk)]
        s1 == IF l.next_dep # None
              THEN [s0 EXCEPT !.links[l.next_dep].prev_dep = l.prev_dep]
              ELSE [s0 EXCEPT !.nodes[l.sub].deps_tail = l.prev_dep]
        s2 == IF l.prev_dep # None
              THEN [s1 EXCEPT !.links[l.prev_dep].next_dep = l.next_dep]
              ELSE [s1 EXCEPT !.nodes[l.sub].deps = l.next_dep]
        s3 == IF l.next_sub # None
              THEN [s2 EXCEPT !.links[l.next_sub].prev_sub = l.prev_sub]
              ELSE [s2 EXCEPT !.nodes[l.dep].subs_tail = l.prev_sub]
    IN IF l.sub \notin DOMAIN s.nodes \/ l.dep \notin DOMAIN s.nodes
       THEN Panic(s0, "UB: stale node key")
       ELSE IF l.prev_sub # None
            THEN [s3 EXCEPT !.links[l.prev_sub].next_sub = l.next_sub]
            ELSE LET s4 == [s3 EXCEPT !.nodes[l.dep].subs = l.next_sub]
                 IN IF l.next_sub = None THEN Call("unwatched", s4, <<l.dep>>) ELSE s4

(***************************************************************************)
(* system/propagation.rs: the notify queue.  queued is a Vec indexed from  *)
(* 0; element i of the Vec is queued[i + 1] here.                          *)
(***************************************************************************)
queued_store(q, index, effect) ==
  IF index >= Len(q) THEN Append(q, effect) ELSE [q EXCEPT ![index + 1] = effect]

RECURSIVE notify_loop(_, _, _)
notify_loop(s, effect, insert_index) ==
  LET s1 == [s EXCEPT !.queued = queued_store(@, insert_index, effect)]
      subs == s.nodes[effect].subs
      up == s.links[subs].sub
  IN IF subs = None THEN [s |-> s1, insert_index |-> insert_index + 1]
     ELSE IF up \notin DOMAIN s.nodes
          THEN [s |-> Panic(s1, "UB: stale node key"), insert_index |-> insert_index + 1]
     ELSE IF ~contains(s.nodes[up].flags, WATCHING)
          THEN [s |-> s1, insert_index |-> insert_index + 1]
     ELSE notify_loop(s1, up, insert_index + 1)

(* the in-place reversal of queued[first .. last] (0-based, inclusive) *)
reverse_range(q, first, last) ==
  [i \in 1..Len(q) |->
     IF i - 1 >= first /\ i - 1 <= last THEN q[(first + last - (i - 1)) + 1] ELSE q[i]]

notify(s, effect) ==
  LET first_inserted_index == s.queued_length
      r == notify_loop(s, effect, s.queued_length)
  IN [r.s EXCEPT !.queued_length = r.insert_index,
                 !.queued = reverse_range(@, first_inserted_index, r.insert_index - 1)]

RECURSIVE is_valid_link_loop(_, _, _)
is_valid_link_loop(s, check_link, lk) ==
  IF lk = None THEN FALSE
  ELSE IF lk = check_link THEN TRUE
  ELSE is_valid_link_loop(s, check_link, s.links[lk].prev_dep)

is_valid_link(s, check_link, sub) ==
  is_valid_link_loop(s, check_link, s.nodes[sub].deps_tail)

(* the four-way flag decision of propagate for one visited subscriber:    *)
(* the subscriber's new flags and the local `flags` the walk goes on with *)
propagate_flags(s, lk, sub_key, flags) ==
  IF ~intersects(flags, RECURSED_CHECK \cup RECURSED \cup DIRTY \cup PENDING)
  THEN [sub |-> flags \cup PENDING, local |-> flags]
  ELSE IF ~contains(flags, RECURSED_CHECK \cup RECURSED)
  THEN [sub |-> flags, local |-> NONE]
  ELSE IF ~contains(flags, RECURSED_CHECK)
  THEN [sub |-> (flags \ RECURSED) \cup PENDING, local |-> flags]
  ELSE IF ~contains(flags, DIRTY \cup PENDING) /\ is_valid_link(s, lk, sub_key)
  THEN [sub |-> flags \cup RECURSED \cup PENDING, local |-> flags \cap MUTABLE]
  ELSE [sub |-> flags, local |-> NONE]

RECURSIVE propagate_loop(_, _, _)
propagate_loop(s, lk, next) ==
  IF ~Ok(s) THEN s
  ELSE IF lk \notin DOMAIN s.links THEN Panic(s, "UB: stale link key")
  ELSE IF s.links[lk].sub \notin DOMAIN s.nodes THEN Panic(s, "UB: stale node key")
  ELSE
    LET sub_key == s.links[lk].sub
        d == propagate_flags(s, lk, sub_key, s.nodes[sub_key].flags)
        flags == d.local
        s1 == [s EXCEPT !.nodes[sub_key].flags = d.sub,
                        !.visits = Append(@, [sub |-> sub_key, link |-> lk,
                                              flags |-> s.nodes[sub_key].flags,
                                              became |-> d.sub, local |-> d.local,
                                              valid |-> is_valid_link(s, lk, sub_key)])]
        s2 == IF contains(flags, WATCHING) THEN Call("notify", s1, <<sub_key>>) ELSE s1
        subs == s2.nodes[sub_key].subs
    IN IF ~Ok(s2) THEN s2
       ELSE IF contains(flags, MUTABLE) /\ subs # None
       THEN LET next_sub == s2.links[subs].next_sub
            IN IF next_sub # None
               THEN propagate_loop(IF next # None
                                   THEN [s2 EXCEPT !.stack = Append(@, next)] ELSE s2,
                                   subs, next_sub)
               ELSE propagate_loop(s2, subs, next)
       ELSE IF next # None
       THEN IF next \notin DOMAIN s2.links THEN Panic(s2, "UB: stale link key")
            ELSE propagate_loop(s2, next, s2.links[next].next_sub)
       ELSE IF Len(s2.stack) > 0
       THEN LET l == s2.stack[Len(s2.stack)]
                s3 == [s2 EXCEPT !.stack = SubSeq(@, 1, Len(@) - 1)]
            IN IF l \notin DOMAIN s3.links THEN Panic(s3, "UB: stale link key")
               ELSE propagate_loop(s3, l, s3.links[l].next_sub)
       ELSE s2

propagate(s, lk) ==
  IF ~Ok(s) THEN s
  ELSE IF lk \notin DOMAIN s.links THEN Panic(s, "UB: stale link key")
  ELSE propagate_loop([s EXCEPT !.stack = <<>>], lk, s.links[lk].next_sub)

(* Marking the subscribers PENDING only, as propagate does, where          *)
(* shallow_propagate turns PENDING subscribers DIRTY.                       *)
mark_pending(s, lk) == Call("propagate", s, <<lk>>)

RECURSIVE shallow_propagate(_, _)
shallow_propagate(s, lk) ==
  IF ~Ok(s) THEN s
  ELSE IF lk \notin DOMAIN s.links THEN Panic(s, "UB: stale link key")
  ELSE IF s.links[lk].sub \notin DOMAIN s.nodes THEN Panic(s, "UB: stale node key")
  ELSE
    LET sub == s.links[lk].sub
        next_sub == s.links[lk].next_sub
        flags == s.nodes[sub].flags
        s1 == IF flags \cap (PENDING \cup DIRTY) = PENDING
              THEN LET s0 == [s EXCEPT !.nodes[sub].flags = flags \cup DIRTY]
                   IN IF flags \cap (WATCHING \cup RECURSED_CHECK) = WATCHING
                      THEN Call("notify", s0, <<sub>>) ELSE s0
              ELSE s
    IN IF next_sub # None THEN Call("shallow_propagate", s1, <<next_sub>>) ELSE s1

(***************************************************************************)
(* User closures.  A getter is an expression, an effect body a sequence of *)
(* statements; both name the handles they captured by their position in    *)
(* the closure's environment env (a sequence of node keys).                *)
(*   expressions: <<"const", v>>  <<"get", i>>  <<"add", e1, e2>>          *)
(*                <<"seq", e1, e2>>  <<"if", c, e1, e2>>  <<"eq", e1, e2>> *)
(*                <<"do", body, e>> (a getter that runs statements first)  *)
(*   statements:  <<"eval", e>>  <<"set", i, e>>  <<"signal", v>>          *)
(*                <<"memo", e>>  <<"computed", e>>  <<"effect", body>>     *)
(*                <<"scope", body>>  <<"if", c, body1, body2>>             *)
(*                <<"dispose", i>>  <<"on_cleanup", tag>>                  *)
(*                <<"start_batch">>  <<"end_batch">>  <<"trigger", body>>  *)
(*                <<"cleanup">>  <<"probe">> (records what the body sees)  *)
(*                <<"provide", ty, v>>  <<"use", ty>>  <<"has", ty>>       *)
(*                <<"update", i, d>> (add d to signal i in place)          *)
(*                <<"spawn", segs>> (a task)  <<"poll", i>> (one poll of    *)
(*                task i by the executor)                                  *)
(*                <<"export", body>> (a scope whose closure hands the      *)
(*                handles it makes to its caller, then the scope handle)   *)
(*                <<"read", i>>  <<"peek", i>>  <<"write", i>> (a guard on  *)
(*                signal i)  <<"store", g, v>>  <<"drop", g>> (the g-th     *)
(*                outstanding guard, the latest one when g = 0)            *)
(*                <<"scoped", body>>  <<"invoke", i>> (the i-th closure    *)
(*                made, the latest one when i = 0)                         *)
(***************************************************************************)
ValMod == 2 * MaxVal + 1

RECURSIVE Eval(_, _, _), Exec(_, _, _), ExecFrom(_, _, _, _), Exec1(_, _, _)
RECURSIVE inner_update(_, _), update_computed_inner(_, _), update(_, _)
RECURSIVE check_dirty_top(_, _, _, _, _), check_dirty_leave(_, _, _, _, _)
RECURSIVE computed_track(_, _), signal_track(_, _), track_loop(_, _, _)
RECURSIVE signal_notify(_, _), flush(_), run(_, _), new_effect(_, _, _)
RECURSIVE new_scope(_, _, _), cleanup_scope(_, _), cleanup_children(_, _)
RECURSIVE run_cleanups(_, _, _, _), dispose_scope(_, _), trigger(_, _, _)
RECURSIVE trigger_loop(_, _, _), scoped_call(_, _, _), ReactiveFuture_poll(_, _)

set_active_sub(s, sub) == [s EXCEPT !.active_sub = sub]

(* The call stack: the nodes whose body (getter or effect callable) is     *)
(* executing, innermost last.  A body that is entered again while it is    *)
(* executing, MaxNest deep, is recursion without end: the stack overflows. *)
enter(s, node) == [s EXCEPT !.running = Append(@, node)]
leave(s) == [s EXCEPT !.running = SubSeq(@, 1, Len(@) - 1)]
Nesting(s, node) == Cardinality({i \in 1..Len(s.running) : s.running[i] = node})

(* the walk of signal_track / computed_track from active_sub outward to   *)
(* the first MUTABLE or WATCHING node, which becomes the subscriber       *)
track_loop(s, node, sub) ==
  IF sub = None \/ ~Ok(s) THEN s
  ELSE IF sub \notin DOMAIN s.nodes THEN Panic(s, "UB: stale node key")
  ELSE IF intersects(s.nodes[sub].flags, MUTABLE \cup WATCHING)
       THEN Call("link", s, <<node, sub, s.cycle>>)
       ELSE LET subs == s.nodes[sub].subs
            IN IF subs = None THEN s ELSE track_loop(s, node, s.links[subs].sub)

(* ComputedOps::update and ::dirty of MemoNodeInner / ComputedNodeInner *)
memo_update(n, new_value) ==
  IF n.pval = NoVal THEN [n EXCEPT !.pval = n.value, !.value = new_value]
  ELSE IF n.value = NoVal THEN [n EXCEPT !.value = new_value]
  ELSE [n EXCEPT !.pval = n.value, !.value = new_value]

memo_dirty(n) == n.pval # NoVal /\ n.value # NoVal /\ n.pval # n.value

computed_dirty(n) == n.value # NoVal

inner_update(s, node) ==
  LET n == s.nodes[node]
      r0 == Call("Eval", enter(Emit(s, <<"getter", node>>), node), <<n.body, n.env>>)
      r == [r0 EXCEPT !.s = leave(@)]
  IN IF ~Ok(r0.s) THEN [s |-> r0.s, r |-> FALSE]
     ELSE IF node \notin DOMAIN r.s.nodes
     THEN [s |-> Panic(r.s, "UB: stale node key"), r |-> FALSE]
     ELSE IF n.memo
          THEN LET m == memo_update(r.s.nodes[node], r.v)
               IN [s |-> [r.s EXCEPT !.nodes[node] = m], r |-> memo_dirty(m)]
          ELSE LET m == [r.s.nodes[node] EXCEPT !.value = r.v]
               IN [s |-> [r.s EXCEPT !.nodes[node] = m], r |-> computed_dirty(m)]

update_computed_inner(s, node) ==
  LET s1 == [s EXCEPT !.cycle = @ + 1,
                      !.nodes[node].flags = MUTABLE \cup RECURSED_CHECK]
      prev_sub == s1.active_sub
      u == Call("inner_update", set_active_sub(s1, node), <<node>>)
      s2 == [u.s EXCEPT !.nodes[node].flags = remove(@, RECURSED_CHECK)]
      s3 == set_active_sub(s2, prev_sub)
  IN IF ~Ok(u.s) THEN u
     ELSE [s |-> Restored(PassEnd(Call("purge_deps", s3, <<node, FALSE>>), node,
                                  Len(s.entries)), "computed", s),
           r |-> u.r]

update_computed(s, node) ==
  update_computed_inner([s EXCEPT !.nodes[node].deps_tail = None], node)

update_signal(s, node) == [s EXCEPT !.nodes[node].flags = MUTABLE]

update(s, node) ==
  IF s.nodes[node].deps_tail # None THEN Call("update_computed", s, <<node>>)
  ELSE [s |-> update_signal(s, node), r |-> TRUE]

stack_pop(s) == [s EXCEPT !.stack = SubSeq(@, 1, Len(@) - 1)]

(* the link check_dirty takes from the stack when it leaves sub *)
Popped(s, sub, lk) ==
  Note(s, [tag |-> "pop", sub |-> sub, link |-> lk,
           dep |-> IF lk \in DOMAIN s.links THEN s.links[lk].dep ELSE None])

check_dirty_top(s, lk, sub, check_depth, dirty) ==
  IF ~Ok(s) THEN [s |-> s, r |-> dirty]
  ELSE IF lk \notin DOMAIN s.links
  THEN [s |-> Panic(s, "UB: stale link key"), r |-> dirty]
  ELSE
    LET dep == s.links[lk].dep
        flags == s.nodes[dep].flags
    IN IF contains(s.nodes[sub].flags, DIRTY)
       THEN check_dirty_leave(s, lk, sub, check_depth, TRUE)
       ELSE IF contains(flags, MUTABLE \cup DIRTY)
       THEN LET u == Call("update", s, <<dep>>)
                subs == u.s.nodes[dep].subs
                s1 == IF ~u.r THEN u.s
                      ELSE IF subs = None
                      THEN Panic(u.s, "unwrap on None: dep.subs in check_dirty")
                      ELSE IF u.s.links[subs].next_sub # None
                      THEN Call("shallow_propagate", u.s, <<subs>>) ELSE u.s
                d1 == dirty \/ u.r
            IN IF ~Ok(s1) THEN [s |-> s1, r |-> d1]
               ELSE IF lk \notin DOMAIN s1.links
               THEN [s |-> Panic(s1, "UB: stale link key"), r |-> d1]
               ELSE IF ~d1 /\ s1.links[lk].next_dep # None
               THEN check_dirty_top(s1, s1.links[lk].next_dep, sub, check_depth, d1)
               ELSE check_dirty_leave(s1, lk, sub, check_depth, d1)
       ELSE IF contains(flags, MUTABLE \cup PENDING)
       THEN LET s1 == IF s.links[lk].next_sub # None \/ s.links[lk].prev_sub # None
                      THEN [s EXCEPT !.stack = Append(@, lk)] ELSE s
            IN IF s.nodes[dep].deps = None
               THEN [s |-> Panic(s1, "unwrap on None: dep.deps in check_dirty"), r |-> dirty]
               ELSE check_dirty_top(s1, s.nodes[dep].deps, dep, check_depth + 1, dirty)
       ELSE IF ~dirty /\ s.links[lk].next_dep # None
       THEN check_dirty_top(s, s.links[lk].next_dep, sub, check_depth, dirty)
       ELSE check_dirty_leave(s, lk, sub, check_depth, dirty)

(* the `while check_depth > 0` loop; lk and sub are the walk's variables *)
check_dirty_leave(s, lk0, sub, check_depth, dirty) ==
  IF ~Ok(s) \/ check_depth = 0 THEN [s |-> s, r |-> dirty]
  ELSE IF s.nodes[sub].subs = None
  THEN [s |-> Panic(s, "unwrap on None: sub.subs in check_dirty"), r |-> dirty]
  ELSE
    LET first_sub == s.nodes[sub].subs
        has_multiple_subs == s.links[first_sub].next_sub # None
        empty == has_multiple_subs /\ Len(s.stack) = 0
        lk == IF has_multiple_subs THEN s.stack[Len(s.stack)] ELSE first_sub
        s1 == IF has_multiple_subs THEN Popped(stack_pop(s), sub, lk) ELSE s
        u == IF dirty THEN Call("update", s1, <<sub>>) ELSE [s |-> s1, r |-> FALSE]
        s2 == IF dirty
              THEN IF u.r /\ has_multiple_subs
                   THEN Call("shallow_propagate", u.s, <<first_sub>>) ELSE u.s
              ELSE [s1 EXCEPT !.nodes[sub].flags = remove(@, PENDING)]
    IN IF empty
       THEN [s |-> Panic(s, "unwrap on None: stack.pop in check_dirty"), r |-> dirty]
       ELSE IF ~Ok(s2) THEN [s |-> s2, r |-> dirty]
       ELSE IF lk \notin DOMAIN s2.links
       THEN [s |-> Panic(s2, "UB: stale link key"), r |-> dirty]
       ELSE IF dirty /\ u.r
       THEN check_dirty_leave(s2, lk, s2.links[lk].sub, check_depth - 1, TRUE)
       ELSE IF s2.links[lk].next_dep # None
       THEN check_dirty_top(s2, s2.links[lk].next_dep, s2.links[lk].sub,
                            check_depth - 1, FALSE)
       ELSE check_dirty_leave(s2, lk, s2.links[lk].sub, check_depth - 1, FALSE)

check_dirty(s, lk, sub) ==
  check_dirty_top([s EXCEPT !.stack = <<>>], lk, sub, 0, FALSE)

(***************************************************************************)
(* system/computed.rs and system/signal.rs                                 *)
(***************************************************************************)
computed_new(s, getter, env, is_memo) ==
  LET node == s.next_node
      n == [ReactiveNode_new("Computed", NONE, s.current_scope)
              EXCEPT !.memo = is_memo, !.body = getter, !.env = env]
  IN [s |-> link_child(nodes_insert(s, n), node), key |-> node]

signal_new(s, initial) ==
  LET node == s.next_node
      n == [ReactiveNode_new("Signal", MUTABLE, s.current_scope) EXCEPT !.value = initial]
  IN [s |-> link_child(nodes_insert(s, n), node), key |-> node]

computed_track_eager(s, node) ==
  IF ~Ok(s) THEN s
  ELSE IF node \notin DOMAIN s.nodes THEN Panic(s, "UB: stale node key")
  ELSE
    LET u == Call("update_computed", s, <<node>>)
    IN IF ~Ok(u.s) THEN u.s ELSE track_loop(u.s, node, u.s.active_sub)

computed_track(s, node) ==
  IF ~Ok(s) THEN s
  ELSE IF node \notin DOMAIN s.nodes THEN Panic(s, "UB: stale node key")
  ELSE
    LET flags == s.nodes[node].flags
        deps == s.nodes[node].deps
        subs == s.nodes[node].subs
        cd == IF ~contains(flags, DIRTY) /\ contains(flags, PENDING)
              THEN IF deps = None
                   THEN [s |-> Panic(s, "unwrap on None: deps in computed_track"), r |-> FALSE]
                   ELSE Call("check_dirty", s, <<deps, node>>)
              ELSE [s |-> s, r |-> contains(flags, DIRTY)]
        s1 == IF ~Ok(cd.s) THEN cd.s
              ELSE IF cd.r
              THEN LET u == Call("update_computed", cd.s, <<node>>)
                   IN IF Ok(u.s) /\ u.r /\ subs # None
                      THEN Call("shallow_propagate", u.s, <<subs>>) ELSE u.s
              ELSE IF is_empty(flags)
              THEN LET c1 == [cd.s EXCEPT !.cycle = @ + 1]
                       prev_sub == c1.active_sub
                       c2 == [set_active_sub(c1, node)
                                EXCEPT !.nodes[node].flags = MUTABLE \cup RECURSED_CHECK]
                       u == Call("inner_update", c2, <<node>>)
                       c3 == set_active_sub(u.s, prev_sub)
                       c4 == [c3 EXCEPT !.nodes[node].flags = remove(@, RECURSED_CHECK)]
                   IN IF ~Ok(u.s) THEN u.s
                      ELSE Restored(PassEnd(Call("purge_deps", c4, <<node, FALSE>>), node,
                                            Len(cd.s.entries)), "computed", cd.s)
              ELSE cd.s
    IN track_loop(Tracked(s1, node), node, s1.active_sub)

computed_get(s, node) ==
  LET s1 == Call("computed_track", s, <<node>>)
  IN IF ~Ok(s1) THEN [s |-> s1, v |-> NoVal]
     ELSE IF s1.nodes[node].value = NoVal
     THEN [s |-> Panic(s1, "unwrap on None: computed value"), v |-> NoVal]
     ELSE [s |-> s1, v |-> s1.nodes[node].value]

signal_track(s, node) ==
  IF ~Ok(s) THEN s
  ELSE IF node \notin DOMAIN s.nodes THEN Panic(s, "UB: stale node key")
  ELSE
    LET s1 == IF contains(s.nodes[node].flags, DIRTY)
              THEN LET s0 == update_signal(s, node)
                       subs == s0.nodes[node].subs
                   IN IF subs # None THEN Call("propagate", s0, <<subs>>) ELSE s0
              ELSE s
    IN track_loop(Tracked(s1, node), node, s1.active_sub)

(***************************************************************************)
(* types.rs: the borrow state of a signal.  borrow_state holds the state   *)
(* of every signal that has left Unused at least once; guards lists the    *)
(* read and write guards that have been handed out and not yet dropped.    *)
(***************************************************************************)
Unused == <<"Unused">>
Reading(count) == <<"Reading", count>>
Writing == <<"Writing">>

BorrowState(s, node) ==
  IF node \in DOMAIN s.borrow_state THEN s.borrow_state[node] ELSE Unused

SetBorrowState(s, node, b) == [s EXCEPT !.borrow_state = (node :> b) @@ @]

(* ReactiveSystem::signal: the checked access to a signal node *)
signal(s, node) ==
  IF ~Ok(s) THEN s
  ELSE IF node \notin DOMAIN s.nodes THEN Panic(s, "Signal accessed after cleanup")
  ELSE IF s.nodes[node].kind # "Signal" THEN Panic(s, "Node is not a Signal")
  ELSE s

borrow_read_check(s, node) ==
  IF ~Ok(signal(s, node)) THEN signal(s, node)
  ELSE IF BorrowState(s, node) = Unused THEN SetBorrowState(s, node, Reading(1))
  ELSE IF BorrowState(s, node)[1] = "Reading"
  THEN SetBorrowState(s, node, Reading(BorrowState(s, node)[2] + 1))
  ELSE Panic(s, "Cannot borrow signal as readable while already borrowed as writable")

borrow_write_check(s, node) ==
  IF ~Ok(signal(s, node)) THEN signal(s, node)
  ELSE IF BorrowState(s, node) = Unused THEN SetBorrowState(s, node, Writing)
  ELSE IF BorrowState(s, node)[1] = "Reading"
  THEN Panic(s, "Cannot borrow signal as writable while already borrowed as readable")
  ELSE Panic(s, "Cannot have multiple write guards to the same signal")

release_read_all(s, node) ==
  IF ~Ok(signal(s, node)) THEN signal(s, node)
  ELSE IF BorrowState(s, node)[1] = "Reading" THEN SetBorrowState(s, node, Unused)
  ELSE Panic(s, "Invalid borrow state during read release")

release_read(s, node) ==
  IF ~Ok(signal(s, node)) THEN signal(s, node)
  ELSE IF BorrowState(s, node)[1] = "Reading" /\ BorrowState(s, node)[2] > 1
  THEN SetBorrowState(s, node, Reading(BorrowState(s, node)[2] - 1))
  ELSE IF BorrowState(s, node) = Reading(1) THEN SetBorrowState(s, node, Unused)
  ELSE Panic(s, "Invalid borrow state during read release")

release_write(s, node) ==
  IF ~Ok(signal(s, node)) THEN signal(s, node)
  ELSE IF BorrowState(s, node) = Writing THEN SetBorrowState(s, node, Unused)
  ELSE Panic(s, "Invalid borrow state during write release")

signal_get(s, node) ==
  LET s1 == Call("signal_track", s, <<node>>)
  IN IF ~Ok(s1) THEN [s |-> s1, v |-> NoVal]
     ELSE [s |-> s1, v |-> s1.nodes[node].value]

signal_notify_deferred(s, node) ==
  LET s1 == [s EXCEPT !.nodes[node].flags = MUTABLE \cup DIRTY]
      subs == s1.nodes[node].subs
  IN IF subs = None THEN s1
     ELSE LET s2 == Call("propagate", s1, <<subs>>)
          IN IF s2.batch_depth = 0 /\ s2.active_sub = None
             THEN Call("flush", s2, <<>>) ELSE s2

signal_notify(s, node) ==
  LET s1 == [s EXCEPT !.nodes[node].flags = MUTABLE \cup DIRTY]
      subs == s1.nodes[node].subs
  IN IF subs = None THEN s1
     ELSE LET s2 == Call("propagate", s1, <<subs>>)
          IN IF s2.batch_depth = 0 THEN Call("flush", s2, <<>>) ELSE s2

signal_set_if_changed(s, node, value) ==
  IF ~Ok(s) THEN s
  ELSE IF node \notin DOMAIN s.nodes THEN Panic(s, "Signal accessed after cleanup")
  ELSE IF s.nodes[node].kind # "Signal" THEN Panic(s, "Node is not a Signal")
  ELSE IF s.nodes[node].value = value THEN s
  ELSE Call("signal_notify", [s EXCEPT !.nodes[node].value = value], <<node>>)

signal_set(s, node, value) ==
  IF ~Ok(s) THEN s
  ELSE IF ~Ok(borrow_write_check(s, node)) THEN borrow_write_check(s, node)
  ELSE Call("signal_notify",
            release_write([borrow_write_check(s, node) EXCEPT !.nodes[node].value = value], node),
            <<node>>)

(* f is "add d to the value" *)
signal_update(s, node, d) ==
  IF ~Ok(signal(s, node)) THEN signal(s, node)
  ELSE Call("signal_notify",
            [s EXCEPT !.nodes[node].value = (@ + d) % ValMod], <<node>>)

(***************************************************************************)
(* src/signal.rs: the guards.  A guard is [kind, node]; DropGuard is the   *)
(* Drop of the g-th outstanding guard.                                     *)
(***************************************************************************)
Without(seq, g) == SubSeq(seq, 1, g - 1) \o SubSeq(seq, g + 1, Len(seq))

Guard(s, kind, node) == [s EXCEPT !.guards = Append(@, [kind |-> kind, node |-> node])]

SignalReadGuard_new(s, node) ==
  LET s1 == borrow_read_check(s, node)
      s2 == Call("signal_track", s1, <<node>>)
  IN IF ~Ok(s1) THEN s1 ELSE IF ~Ok(s2) THEN s2 ELSE Guard(s2, "read", node)

peek(s, node) ==
  LET s1 == borrow_read_check(s, node)
  IN IF ~Ok(s1) THEN s1 ELSE Guard(s1, "read", node)

SignalWriteGuard_new(s, node) ==
  LET s1 == borrow_write_check(s, node)
  IN IF ~Ok(s1) THEN s1 ELSE Guard(s1, "write", node)

deref_mut(s, g, value) ==
  LET node == s.guards[g].node
  IN IF ~Ok(signal(s, node)) THEN signal(s, node)
     ELSE [s EXCEPT !.nodes[node].value = value]

DropGuard(s, g) ==
  LET node == s.guards[g].node
      s1 == [s EXCEPT !.guards = Without(@, g)]
  IN IF node \notin DOMAIN s.nodes THEN s1
     ELSE IF s.guards[g].kind = "read" THEN release_read(s1, node)
     ELSE IF ~Ok(release_write(s1, node)) THEN release_write(s1, node)
     ELSE Call("signal_notify", release_write(s1, node), <<node>>)

(***************************************************************************)
(* system/batching.rs                                                      *)
(***************************************************************************)
flush(s) ==
  IF ~Ok(s) THEN s
  ELSE IF s.notify_index < s.queued_length
  THEN LET effect == s.queued[s.notify_index + 1]
           s1 == Emit([s EXCEPT !.notify_index = @ + 1], <<"drain", effect>>)
       IN Call("flush", Call("run", s1, <<effect>>), <<>>)
  ELSE [s EXCEPT !.notify_index = 0, !.queued_length = 0]

start_batch(s) == [s EXCEPT !.batch_depth = @ + 1]

end_batch(s) ==
  LET s1 == [s EXCEPT !.batch_depth = @ - 1]
  IN IF s1.batch_depth = 0 THEN Call("flush", s1, <<>>) ELSE s1

count(s) == <<Cardinality(DOMAIN s.nodes), Cardinality(DOMAIN s.links)>>

(***************************************************************************)
(* system/lifecycle.rs: cleanup and disposal                               *)
(***************************************************************************)
cleanup_children(s, current) ==
  IF current = None \/ ~Ok(s) THEN s
  ELSE IF current \notin DOMAIN s.nodes THEN Panic(s, "UB: stale node key")
  ELSE LET nxt == s.nodes[current].next
           s1 == IF s.nodes[current].kind \in {"Effect", "None"}
                 THEN Call("cleanup_scope", s, <<current>>) ELSE s
       IN cleanup_children(s1, nxt)

(* Running the callbacks of one node in the order of registration. *)
run_in_order(s, node, cbs, i) ==
  [s EXCEPT !.log = @ \o [j \in 1..i |-> <<"cleanup", node, cbs[j]>>]]

(* what a callback of node can observe: the nodes created under it and the *)
(* links that end at it                                                    *)
ChildrenOf(s, node) == {k \in DOMAIN s.nodes : s.nodes[k].parent = node}
LinksOf(s, node) == {l \in DOMAIN s.links : s.links[l].dep = node \/ s.links[l].sub = node}

(* the callbacks of one node, last registered first *)
(* a callback is a tag; a negative tag -i is the callback registered by    *)
(* ReactiveFuture::new for task i, which calls abort_handle.abort()        *)
call_cleanup(s, tag) ==
  IF tag < 0 THEN [s EXCEPT !.tasks[0 - tag].aborted = TRUE] ELSE s

run_cleanups(s, node, cbs, i) ==
  IF i = 0 \/ ~Ok(s) THEN s
  ELSE LET s1 == Emit(s, <<"at_cleanup", node, ChildrenOf(s, node), LinksOf(s, node)>>)
       IN run_cleanups(call_cleanup(Emit(s1, <<"cleanup", node, cbs[i]>>), cbs[i]),
                       node, cbs, i - 1)

cleanup_scope(s, node) ==
  LET s1 == cleanup_children(s, s.nodes[node].child)
  IN IF ~Ok(s1) THEN s1
     ELSE IF node \in DOMAIN s1.cleanups
     THEN LET cbs == s1.cleanups[node]
          IN run_cleanups([s1 EXCEPT !.cleanups = RemoveKey(@, node)], node, cbs, Len(cbs))
     ELSE s1

(* Freeing the node and its own links only, where dispose_scope tears down *)
(* the whole subtree.                                                      *)
dispose_shallow(s, node) ==
  IF ~Ok(s) \/ node \notin DOMAIN s.nodes THEN s
  ELSE nodes_remove(unlink_child(Call("purge_node", s, <<node>>), node), node)

(* Tearing the children down before the callbacks run. *)
dispose_teardown_first(s, node) ==
  IF ~Ok(s) \/ node \notin DOMAIN s.nodes THEN s
  ELSE LET s1 == Call("cleanup_scope", Call("purge_child", s, <<node>>), <<node>>)
           s2 == Call("purge_scope", s1, <<node>>)
       IN IF ~Ok(s1) THEN s1 ELSE IF ~Ok(s2) THEN s2
          ELSE nodes_remove(unlink_child(s2, node), node)

(* Disposal without the contains_key test: a stale key is used unchecked. *)
dispose_unguarded(s, node) ==
  IF ~Ok(s) THEN s
  ELSE IF node \notin DOMAIN s.nodes THEN Panic(s, "UB: stale node key")
  ELSE LET s1 == Call("cleanup_scope", s, <<node>>)
           s2 == Call("purge_scope", s1, <<node>>)
       IN IF ~Ok(s1) THEN s1 ELSE IF ~Ok(s2) THEN s2
          ELSE nodes_remove(unlink_child(s2, node), node)

dispose_scope(s, node) ==
  IF ~Ok(s) \/ node \notin DOMAIN s.nodes THEN s
  ELSE LET s1 == Call("cleanup_scope", s, <<node>>)
           s2 == Call("purge_scope", s1, <<node>>)
           s3 == unlink_child(s2, node)
       IN IF ~Ok(s1) THEN s1 ELSE IF ~Ok(s2) THEN s2
          ELSE nodes_remove([s3 EXCEPT !.contexts = RemoveKey(@, node)], node)

cleanup(s) ==
  LET s1 == Call("cleanup_scope", s, <<Root>>)
      s2 == Call("purge_scope", s1, <<Root>>)
  IN IF ~Ok(s1) THEN s1 ELSE IF ~Ok(s2) THEN s2 ELSE unlink_child(s2, Root)

(***************************************************************************)
(* system/context.rs.  A context type is a name, its value a number.       *)
(***************************************************************************)
provide_context_at_root(s, ty, value) ==
  LET old == IF Root \in DOMAIN s.contexts THEN s.contexts[Root] ELSE <<>>
  IN [s EXCEPT !.contexts = (Root :> ((ty :> value) @@ old)) @@ @]

provide_context(s, ty, value) ==
  LET current == s.current_scope
      old == IF current \in DOMAIN s.contexts THEN s.contexts[current] ELSE <<>>
  IN [s EXCEPT !.contexts = (current :> ((ty :> value) @@ old)) @@ @]

(* the chain current_scope, parent, ..., root at this point of the run *)
RECURSIVE ScopeChain(_, _, _)
ScopeChain(s, current, n) ==
  IF n = 0 \/ current \notin DOMAIN s.nodes THEN <<>>
  ELSE IF s.nodes[current].parent = None THEN <<current>>
  ELSE <<current>> \o ScopeChain(s, s.nodes[current].parent, n - 1)

RECURSIVE use_context_loop(_, _, _)
use_context_loop(s, current, ty) ==
  IF current \in DOMAIN s.contexts /\ ty \in DOMAIN s.contexts[current]
  THEN [s |-> s, v |-> s.contexts[current][ty]]
  ELSE IF current \notin DOMAIN s.nodes THEN [s |-> Panic(s, "UB: stale node key"), v |-> NoVal]
  ELSE IF s.nodes[current].parent # None
  THEN use_context_loop(s, s.nodes[current].parent, ty)
  ELSE [s |-> s, v |-> NoVal]

use_context(s, ty) ==
  LET r == use_context_loop(s, s.current_scope, ty)
  IN IF ~Ok(r.s) THEN r.s
     ELSE Emit(s, <<"use", ScopeChain(s, s.current_scope, Cardinality(DOMAIN s.nodes)), ty, r.v>>)

RECURSIVE has_context_loop(_, _, _)
has_context_loop(s, current, ty) ==
  IF current \in DOMAIN s.contexts /\ ty \in DOMAIN s.contexts[current]
  THEN [s |-> s, v |-> TRUE]
  ELSE IF current \notin DOMAIN s.nodes THEN [s |-> Panic(s, "UB: stale node key"), v |-> FALSE]
  ELSE IF s.nodes[current].parent # None
  THEN has_context_loop(s, s.nodes[current].parent, ty)
  ELSE [s |-> s, v |-> FALSE]

has_context(s, ty) ==
  LET r == has_context_loop(s, s.current_scope, ty)
  IN IF ~Ok(r.s) THEN r.s
     ELSE Emit(s, <<"has", ScopeChain(s, s.current_scope, Cardinality(DOMAIN s.nodes)), ty, r.v>>)

on_cleanup(s, tag) ==
  LET current == s.current_scope
  IN IF current \in DOMAIN s.cleanups
     THEN [s EXCEPT !.cleanups[current] = Append(@, tag)]
     ELSE [s EXCEPT !.cleanups = (current :> <<tag>>) @@ @]

(***************************************************************************)
(* system/effect.rs                                                        *)
(***************************************************************************)
new_effect(s, body, env) ==
  LET parent_scope == s.current_scope
      node == s.next_node
      n == [ReactiveNode_new("Effect", WATCHING \cup RECURSED_CHECK, parent_scope)
              EXCEPT !.body = body, !.env = env]
      s1 == link_child(nodes_insert(s, n), node)
      prev_sub == s1.active_sub
      s2 == set_active_sub(s1, node)
      s3 == IF prev_sub # None THEN Call("link", s2, <<node, prev_sub, 0>>) ELSE s2
      prev_scope == s3.current_scope
      s4 == [s3 EXCEPT !.current_scope = node]
      r == Call("Exec", enter(Emit(s4, <<"run", node>>), node), <<body, env>>)
      s5 == [leave(r.s) EXCEPT !.current_scope = prev_scope, !.active_sub = prev_sub]
  IN IF ~Ok(r.s) THEN [s |-> r.s, key |-> node]
     ELSE IF node \notin DOMAIN s5.nodes
     THEN [s |-> Panic(s5, "UB: stale node key"), key |-> node]
     ELSE [s |-> Restored(PassEnd([s5 EXCEPT !.nodes[node].flags = remove(@, RECURSED_CHECK)],
                                  node, Len(s.entries)), "effect", s),
           key |-> node]

(* A scope that restores the current scope and leaves itself as the active *)
(* subscriber.                                                             *)
new_scope_keeps_sub(s, body, env) ==
  LET scope_node == s.next_node
      s1 == link_child(nodes_insert(s, ReactiveNode_new("None", NONE, s.current_scope)),
                       scope_node)
      r == Call("Exec", [s1 EXCEPT !.current_scope = scope_node, !.active_sub = scope_node],
                <<body, env>>)
  IN IF ~Ok(r.s) THEN [s |-> r.s, key |-> scope_node, env |-> r.env]
     ELSE [s |-> Restored([r.s EXCEPT !.current_scope = s.current_scope], "scope", s),
           key |-> scope_node, env |-> r.env]

new_scope(s, body, env) ==
  LET parent == s.current_scope
      scope_node == s.next_node
      s1 == link_child(nodes_insert(s, ReactiveNode_new("None", NONE, parent)), scope_node)
      prev_scope == s1.current_scope
      prev_sub == s1.active_sub
      s2 == [s1 EXCEPT !.current_scope = scope_node, !.active_sub = scope_node]
      r == Call("Exec", s2, <<body, env>>)
  IN IF ~Ok(r.s) THEN [s |-> r.s, key |-> scope_node, env |-> r.env]
     ELSE [s |-> Restored([r.s EXCEPT !.active_sub = prev_sub, !.current_scope = prev_scope],
                          "scope", s),
           key |-> scope_node, env |-> r.env]

new_child_scope(s, parent) ==
  LET scope_node == s.next_node
  IN [s |-> link_child(nodes_insert(s, ReactiveNode_new("None", NONE, parent)), scope_node),
      key |-> scope_node]

(***************************************************************************)
(* runtime/executor.rs: a spawned task.  segs are the pieces of the async  *)
(* body between its await points; one poll runs the piece at pc.  aborted  *)
(* is the flag shared by the AbortHandle and the Abortable wrapper.        *)
(***************************************************************************)
ReactiveFuture_detached(s, segs, env) ==
  [s EXCEPT !.tasks = Append(@, [scope |-> s.current_scope, active_sub |-> s.active_sub,
                                 segs |-> segs, env |-> env, pc |-> 1,
                                 aborted |-> FALSE, done |-> FALSE])]

ReactiveFuture_new(s, segs, env) ==
  LET s1 == on_cleanup(s, 0 - (Len(s.tasks) + 1))
  IN [s1 EXCEPT !.tasks = Append(@, [scope |-> s.current_scope, active_sub |-> s.active_sub,
                                     segs |-> segs, env |-> env, pc |-> 1,
                                     aborted |-> FALSE, done |-> FALSE])]

ReactiveFuture_poll(s, i) ==
  LET task == s.tasks[i]
      prev_scope == s.current_scope
      prev_sub == s.active_sub
      s1 == set_active_sub([s EXCEPT !.current_scope = task.scope], task.active_sub)
      x == Call("Exec", Emit(s1, <<"task", i, task.pc>>), <<task.segs[task.pc], task.env>>)
      s2 == IF task.aborted THEN [s1 EXCEPT !.tasks[i].done = TRUE]
            ELSE [x.s EXCEPT !.tasks[i].pc = task.pc + 1,
                             !.tasks[i].done = (task.pc = Len(task.segs))]
  IN IF ~Ok(s2) THEN s2
     ELSE Restored([s2 EXCEPT !.current_scope = prev_scope, !.active_sub = prev_sub],
                   "poll", s)

(***************************************************************************)
(* src/scope.rs: scoped(f) returns a closure that holds the scope current  *)
(* at its creation; factories lists the closures made so far, and made the *)
(* scope nodes each of them has created.                                   *)
(***************************************************************************)
scoped(s, f) ==
  Emit([s EXCEPT !.factories = Append(@, [parent_scope |-> s.current_scope, f |-> f,
                                          made |-> {}])],
       <<"scoped", Len(s.factories) + 1, s.current_scope>>)

(* one call of the closure that scoped returned *)
scoped_call(s, i, env) ==
  LET r == new_child_scope(s, s.factories[i].parent_scope)
      scope_node == r.key
      prev_scope == r.s.current_scope
      s1 == Emit([r.s EXCEPT !.current_scope = scope_node,
                             !.factories[i].made = @ \cup {scope_node}],
                 <<"invoked", i, scope_node, prev_scope, r.s.nodes[scope_node].parent>>)
      x == Call("Exec", s1, <<s.factories[i].f, env>>)
  IN IF ~Ok(r.s) THEN [s |-> r.s, key |-> scope_node]
     ELSE IF ~Ok(x.s) THEN [s |-> x.s, key |-> scope_node]
     ELSE [s |-> Restored(Emit([x.s EXCEPT !.current_scope = prev_scope],
                               <<"returned", i, scope_node>>), "scoped", s),
           key |-> scope_node]

(* the nodes below node in the parent/child tree *)
RECURSIVE Descend(_, _)
Descend(s, found) ==
  LET more == {k \in DOMAIN s.nodes : s.nodes[k].parent \in found} \ found
  IN IF more = {} THEN found ELSE Descend(s, found \cup more)

DescendantsOf(s, node) == Descend(s, {node}) \ {node}

(* the callbacks registered on the nodes ks and not yet run *)
Registered(s, ks) ==
  UNION {{k} \X DOMAIN s.cleanups[k] : k \in ks \cap DOMAIN s.cleanups}

(* the callbacks of the nodes ks that ran after the first n events *)
RanSince(s, ks, n) ==
  {i \in n + 1..Len(s.log) : s.log[i][1] = "cleanup" /\ s.log[i][2] \in ks}

(* the state in which run invokes the callable of node again: old is the   *)
(* state in which run found the node dirty                                 *)
AtRerun(s, old, node) ==
  LET below == DescendantsOf(old, node)
  IN Note(s, [tag |-> "rerun", node |-> node, created |-> below,
              registered |-> Registered(old, below \cup {node}),
              pending |-> Registered(s, below \cup {node}),
              ran |-> RanSince(s, below \cup {node}, Len(old.log)),
              survivors |-> below \cap DOMAIN s.nodes,
              links |-> UNION {LinksOf(s, k) : k \in below},
              child |-> s.nodes[node].child])

(* the state in which run leaves a PENDING node whose check_dirty is clean *)
AtSkip(s, old, node) ==
  Note(s, [tag |-> "skip", node |-> node,
           children0 |-> ChildrenOf(old, node), children |-> ChildrenOf(s, node),
           registered0 |-> Registered(old, {node}), registered |-> Registered(s, {node}),
           ran |-> RanSince(s, {node}, Len(old.log)),
           runs |-> {i \in Len(old.log) + 1..Len(s.log) : s.log[i] = <<"run", node>>}])

run(s, node) ==
  IF ~Ok(s) \/ node \notin DOMAIN s.nodes THEN s
  ELSE
    LET flags == s.nodes[node].flags
        deps == s.nodes[node].deps
        cd == IF contains(flags, DIRTY) THEN [s |-> s, r |-> TRUE]
              ELSE IF contains(flags, PENDING)
              THEN IF deps = None
                   THEN [s |-> Panic(s, "unwrap on None: deps in run"), r |-> FALSE]
                   ELSE Call("check_dirty", s, <<deps, node>>)
              ELSE [s |-> s, r |-> FALSE]
    IN IF ~Ok(cd.s) THEN cd.s
       ELSE IF node \notin DOMAIN cd.s.nodes THEN Panic(cd.s, "UB: stale node key")
       ELSE IF cd.r
       THEN LET s1 == [cd.s EXCEPT !.cycle = @ + 1,
                                   !.nodes[node].deps_tail = None,
                                   !.nodes[node].flags = WATCHING \cup RECURSED_CHECK]
                s2 == Call("cleanup_scope", s1, <<node>>)
                s3 == Call("purge_child", s2, <<node>>)
                n == s3.nodes[node]
                prev_sub == s3.active_sub
                prev_scope == s3.current_scope
                s4 == [s3 EXCEPT !.active_sub = node, !.current_scope = node]
                r == IF n.kind = "Effect"
                     THEN Call("Exec", enter(Emit(AtRerun(s4, cd.s, node), <<"run", node>>), node),
                               <<n.body, n.env>>)
                     ELSE [s |-> enter(s4, node), env |-> <<>>]
                s5 == [leave(r.s) EXCEPT !.current_scope = prev_scope, !.active_sub = prev_sub]
            IN IF ~Ok(s2) THEN s2
               ELSE IF ~Ok(s3) THEN s3
               ELSE IF Nesting(s3, node) >= MaxNest
               THEN Panic(s3, "stack overflow: run re-enters a running effect")
               ELSE IF ~Ok(r.s) THEN r.s
               ELSE IF node \notin DOMAIN s5.nodes THEN Panic(s5, "UB: stale node key")
               ELSE Restored(PassEnd(Call("purge_deps",
                                 [s5 EXCEPT !.nodes[node].flags = remove(@, RECURSED_CHECK)],
                                 <<node, FALSE>>), node, Len(s3.entries)), "run", s)
       ELSE IF contains(flags, PENDING) /\ ~contains(flags, DIRTY)
       THEN AtSkip([cd.s EXCEPT !.nodes[node].flags = WATCHING], s, node)
       ELSE [cd.s EXCEPT !.nodes[node].flags = WATCHING]

(* the unlinking loop of trigger: it advances along next_sub *)
trigger_loop(s, sub, current) ==
  IF current = None \/ ~Ok(s) THEN s
  ELSE IF current \notin DOMAIN s.links THEN Panic(s, "UB: stale link key")
  ELSE
    LET dep == s.links[current].dep
        next_sub == s.links[current].next_sub
        s1 == Call("unlink", s, <<current>>)
        subs == s1.nodes[dep].subs
        s2 == IF subs # None
              THEN Call("shallow_propagate",
                        Call("propagate", [s1 EXCEPT !.nodes[sub].flags = NONE], <<subs>>),
                        <<subs>>)
              ELSE s1
    IN IF ~Ok(s1) THEN s1
       ELSE IF dep \notin DOMAIN s1.nodes THEN Panic(s1, "UB: stale node key")
       ELSE trigger_loop(s2, sub, next_sub)

trigger(s, body, env) ==
  LET parent == s.current_scope
      sub == s.next_node
      s0 == nodes_insert(s, ReactiveNode_new("None", WATCHING, parent))
      s1 == [s0 EXCEPT !.triggers = @ \cup {sub}]
      prev_sub == s1.active_sub
      r == Call("Exec", set_active_sub(s1, sub), <<body, env>>)
      s2 == set_active_sub(r.s, prev_sub)
      s3 == trigger_loop(s2, sub, s2.nodes[sub].deps)
      s4 == IF s3.batch_depth = 0 THEN Call("flush", s3, <<>>) ELSE s3
  IN IF ~Ok(r.s) THEN r.s
     ELSE IF ~Ok(s3) THEN s3
     ELSE IF ~Ok(s4) THEN s4
     ELSE Restored(nodes_remove([s4 EXCEPT !.triggers = @ \ {sub}], sub), "trigger", s)

(***************************************************************************)
(* The lists of the two arenas, read through their pointers, and the       *)
(* structural conditions on them.  They are evaluated on a system record   *)
(* so that a closure can observe them in the middle of an operation.       *)
(***************************************************************************)
RECURSIVE WalkNodes(_, _, _)
WalkNodes(ns, k, n) ==
  IF k = None \/ n = 0 \/ k \notin DOMAIN ns THEN <<>>
  ELSE <<k>> \o WalkNodes(ns, ns[k].next, n - 1)

child_list(s, k) == WalkNodes(s.nodes, s.nodes[k].child, Cardinality(DOMAIN s.nodes) + 1)

Occurrences(seq, x) == Cardinality({i \in 1..Len(seq) : seq[i] = x})

(* one link: both ends live, once in each list, neighbours mutual *)
LinkOk(s, l) ==
  LET L == s.links[l]
  IN /\ L.dep \in DOMAIN s.nodes
     /\ L.sub \in DOMAIN s.nodes
     /\ Occurrences(subs_list(s, L.dep), l) = 1
     /\ Occurrences(deps_list(s, L.sub), l) = 1
     /\ L.next_dep # None =>
          L.next_dep \in DOMAIN s.links /\ s.links[L.next_dep].prev_dep = l
     /\ L.prev_dep # None =>
          L.prev_dep \in DOMAIN s.links /\ s.links[L.prev_dep].next_dep = l
     /\ L.next_sub # None =>
          L.next_sub \in DOMAIN s.links /\ s.links[L.next_sub].prev_sub = l
     /\ L.prev_sub # None =>
          L.prev_sub \in DOMAIN s.links /\ s.links[L.prev_sub].next_sub = l

(* one node: its four anchors are the ends of its two lists *)
AnchorsOk(s, k) ==
  LET n == s.nodes[k]
      dl == deps_list(s, k)
      sl == subs_list(s, k)
  IN /\ (n.deps = None) <=> (n.deps_tail = None)
     /\ (n.subs = None) <=> (n.subs_tail = None)
     /\ n.deps # None => n.deps \in DOMAIN s.links /\ s.links[n.deps].prev_dep = None
     /\ n.subs # None => n.subs \in DOMAIN s.links /\ s.links[n.subs].prev_sub = None
     /\ n.deps_tail # None =>
          /\ n.deps_tail \in DOMAIN s.links
          /\ s.links[n.deps_tail].next_dep = None
          /\ Len(dl) > 0 /\ dl[Len(dl)] = n.deps_tail
     /\ n.subs_tail # None =>
          /\ n.subs_tail \in DOMAIN s.links
          /\ s.links[n.subs_tail].next_sub = None
          /\ Len(sl) > 0 /\ sl[Len(sl)] = n.subs_tail
     /\ \A i \in 1..Len(dl) : s.links[dl[i]].sub = k
     /\ \A i \in 1..Len(sl) : s.links[sl[i]].dep = k

LinkIntegrity(s) ==
  /\ \A l \in DOMAIN s.links : LinkOk(s, l)
  /\ \A k \in DOMAIN s.nodes : AnchorsOk(s, k)

(* one node of the tree: in the child list of its live parent, exactly     *)
(* once, in no other child list, sibling pointers mutual                   *)
ChildOk(s, k) ==
  LET n == s.nodes[k]
  IN /\ n.parent \in DOMAIN s.nodes
     /\ Occurrences(child_list(s, n.parent), k) = 1
     /\ \A p \in DOMAIN s.nodes : p # n.parent => Occurrences(child_list(s, p), k) = 0
     /\ n.next # None => n.next \in DOMAIN s.nodes /\ s.nodes[n.next].prev = k
     /\ n.prev # None => n.prev \in DOMAIN s.nodes /\ s.nodes[n.prev].next = k
     /\ n.prev = None => s.nodes[n.parent].child = k

Orphans(s) == {k \in DOMAIN s.nodes \ {Root} : ~ChildOk(s, k)}

(* the throw-away subscriber of a trigger in progress *)
TriggerNodes(s) == s.triggers \cap DOMAIN s.nodes

(* the keys that occur more than once in queued[0..queued_length) *)
QueueDup(s) ==
  {s.queued[i] : i \in {j \in 1..s.queued_length :
                          \E h \in 1..s.queued_length : h # j /\ s.queued[h] = s.queued[j]}}

(* the nodes that have RECURSED_CHECK set, and the nodes whose body is on   *)
(* the call stack                                                          *)
Checked(s) == {k \in DOMAIN s.nodes : contains(s.nodes[k].flags, RECURSED_CHECK)}
Executing(s) == {s.running[i] : i \in 1..Len(s.running)}

ScopeTree(s, except) ==
  \A k \in DOMAIN s.nodes : (k # Root /\ k \notin except) => ChildOk(s, k)

(***************************************************************************)
(* The interpreter of user closures.                                       *)
(***************************************************************************)
Eval(s, e, env) ==
  IF ~Ok(s) THEN [s |-> s, v |-> 0]
  ELSE IF e[1] = "const" THEN [s |-> s, v |-> e[2]]
  ELSE IF e[1] = "get"
  THEN LET node == env[e[2]]
       IN IF node \notin DOMAIN s.nodes
          THEN [s |-> Panic(s, "UB: stale node key"), v |-> 0]
          ELSE IF s.nodes[node].kind = "Signal" THEN Call("signal_get", s, <<node>>)
          ELSE Call("computed_get", s, <<node>>)
  ELSE IF e[1] = "add"
  THEN LET a == Call("Eval", s, <<e[2], env>>)
           b == Call("Eval", a.s, <<e[3], env>>)
       IN [s |-> b.s, v |-> (a.v + b.v) % ValMod]
  ELSE IF e[1] = "eq"
  THEN LET a == Call("Eval", s, <<e[2], env>>)
           b == Call("Eval", a.s, <<e[3], env>>)
       IN [s |-> b.s, v |-> IF a.v = b.v THEN 1 ELSE 0]
  ELSE IF e[1] = "seq"
  THEN Call("Eval", Call("Eval", s, <<e[2], env>>).s, <<e[3], env>>)
  ELSE IF e[1] = "if"
  THEN LET c == Call("Eval", s, <<e[2], env>>)
       IN IF c.v # 0 THEN Call("Eval", c.s, <<e[3], env>>)
          ELSE Call("Eval", c.s, <<e[4], env>>)
  ELSE IF e[1] = "do"
  THEN LET x == Call("Exec", s, <<e[2], env>>)
       IN Call("Eval", x.s, <<e[3], x.env>>)
  ELSE [s |-> Panic(s, "bad expression"), v |-> 0]

Exec1(s, st, env) ==
  IF ~Ok(s) THEN [s |-> s, env |-> env]
  ELSE IF st[1] = "eval"
  THEN LET r == Call("Eval", s, <<st[2], env>>)
       IN [s |-> IF Ok(r.s) THEN Emit(r.s, <<"saw", r.s.current_scope, r.v>>) ELSE r.s,
           env |-> env]
  ELSE IF st[1] = "set"
  THEN LET r == Call("Eval", s, <<st[3], env>>)
       IN [s |-> Call("signal_set", r.s, <<env[st[2]], r.v>>), env |-> env]
  ELSE IF st[1] = "signal"
  THEN LET r == signal_new(s, st[2]) IN [s |-> r.s, env |-> Append(env, r.key)]
  ELSE IF st[1] = "memo"
  THEN LET r == computed_new(s, st[2], env, TRUE) IN [s |-> r.s, env |-> Append(env, r.key)]
  ELSE IF st[1] = "computed"
  THEN LET r == computed_new(s, st[2], env, FALSE) IN [s |-> r.s, env |-> Append(env, r.key)]
  ELSE IF st[1] = "effect"
  THEN LET r == Call("new_effect", s, <<st[2], env>>)
       IN [s |-> r.s, env |-> Append(env, r.key)]
  ELSE IF st[1] = "scope"
  THEN LET r == Call("new_scope", s, <<st[2], env>>)
       IN [s |-> r.s, env |-> Append(env, r.key)]
  ELSE IF st[1] = "if"
  THEN LET c == Call("Eval", s, <<st[2], env>>)
       IN [s |-> Call("Exec", c.s, <<IF c.v # 0 THEN st[3] ELSE st[4], env>>).s,
           env |-> env]
  ELSE IF st[1] = "dispose"
  THEN [s |-> Call("dispose_scope", s, <<env[st[2]]>>), env |-> env]
  ELSE IF st[1] = "on_cleanup"
  THEN [s |-> on_cleanup(s, st[2]), env |-> env]
  ELSE IF st[1] = "spawn"
  THEN [s |-> ReactiveFuture_new(s, st[2], env), env |-> env]
  ELSE IF st[1] = "poll"
  THEN [s |-> Call("ReactiveFuture_poll", s, <<st[2]>>), env |-> env]
  ELSE IF st[1] = "export"
  THEN LET r == Call("new_scope", s, <<st[2], env>>)
       IN [s |-> r.s, env |-> Append(r.env, r.key)]
  ELSE IF st[1] = "scoped"
  THEN [s |-> scoped(s, st[2]), env |-> env]
  ELSE IF st[1] = "update"
  THEN [s |-> signal_update(s, env[st[2]], st[3]), env |-> env]
  ELSE IF st[1] = "read"
  THEN [s |-> SignalReadGuard_new(s, env[st[2]]), env |-> env]
  ELSE IF st[1] = "peek"
  THEN [s |-> peek(s, env[st[2]]), env |-> env]
  ELSE IF st[1] = "write"
  THEN [s |-> SignalWriteGuard_new(s, env[st[2]]), env |-> env]
  ELSE IF st[1] = "store"
  THEN [s |-> deref_mut(s, IF st[2] = 0 THEN Len(s.guards) ELSE st[2], st[3]), env |-> env]
  ELSE IF st[1] = "drop"
  THEN [s |-> DropGuard(s, IF st[2] = 0 THEN Len(s.guards) ELSE st[2]), env |-> env]
  ELSE IF st[1] = "invoke"
  THEN LET r == Call("scoped_call", s, <<IF st[2] = 0 THEN Len(s.factories) ELSE st[2], env>>)
       IN [s |-> r.s, env |-> Append(env, r.key)]
  ELSE IF st[1] = "provide"
  THEN [s |-> Emit(provide_context(s, st[2], st[3]), <<"provide", s.current_scope, st[2], st[3]>>),
        env |-> env]
  ELSE IF st[1] = "use"
  THEN [s |-> use_context(s, st[2]), env |-> env]
  ELSE IF st[1] = "has"
  THEN [s |-> has_context(s, st[2]), env |-> env]
  ELSE IF st[1] = "start_batch"
  THEN [s |-> start_batch(s), env |-> env]
  ELSE IF st[1] = "end_batch"
  THEN [s |-> Call("end_batch", s, <<>>), env |-> env]
  ELSE IF st[1] = "trigger"
  THEN [s |-> Call("trigger", s, <<st[2], env>>), env |-> env]
  ELSE IF st[1] = "cleanup"
  THEN [s |-> cleanup(s), env |-> env]
  ELSE IF st[1] = "probe"
  THEN [s |-> Emit(s, <<"probe", Orphans(s), TriggerNodes(s), QueueDup(s),
                         Checked(s), Executing(s)>>),
        env |-> env]
  ELSE [s |-> Panic(s, "bad statement"), env |-> env]

ExecFrom(s, body, i, env) ==
  IF i > Len(body) \/ ~Ok(s) THEN [s |-> s, env |-> env]
  ELSE LET r == Call("Exec1", s, <<body[i], env>>) IN ExecFrom(r.s, body, i + 1, r.env)

Exec(s, body, env) == ExecFrom(s, body, 1, env)

Call(f, s, a) ==
  CASE f = "link" -> link(s, a[1], a[2], a[3])
    [] f = "unlink" -> unlink(s, a[1])
    [] f = "unwatched" -> unwatched(s, a[1])
    [] f = "purge_deps" -> purge_deps(s, a[1], a[2])
    [] f = "purge_subs" -> purge_subs(s, a[1])
    [] f = "purge_node" -> purge_node(s, a[1])
    [] f = "purge_child" -> purge_child(s, a[1])
    [] f = "purge_scope" -> purge_scope(s, a[1])
    [] f = "notify" -> notify(s, a[1])
    [] f = "propagate" -> propagate(s, a[1])
    [] f = "shallow_propagate" -> shallow_propagate(s, a[1])
    [] f = "check_dirty" -> check_dirty(s, a[1], a[2])
    [] f = "inner_update" -> inner_update(s, a[1])
    [] f = "update_computed" -> update_computed(s, a[1])
    [] f = "update" -> update(s, a[1])
    [] f = "computed_track" -> computed_track(s, a[1])
    [] f = "computed_get" -> computed_get(s, a[1])
    [] f = "signal_track" -> signal_track(s, a[1])
    [] f = "signal_get" -> signal_get(s, a[1])
    [] f = "signal_notify" -> signal_notify(s, a[1])
    [] f = "signal_set" -> signal_set(s, a[1], a[2])
    [] f = "flush" -> flush(s)
    [] f = "end_batch" -> end_batch(s)
    [] f = "cleanup_scope" -> cleanup_scope(s, a[1])
    [] f = "dispose_scope" -> dispose_scope(s, a[1])
    [] f = "new_effect" -> new_effect(s, a[1], a[2])
    [] f = "new_scope" -> new_scope(s, a[1], a[2])
    [] f = "scoped_call" -> scoped_call(s, a[1], a[2])
    [] f = "ReactiveFuture_poll" -> ReactiveFuture_poll(s, a[1])
    [] f = "run" -> run(s, a[1])
    [] f = "trigger" -> trigger(s, a[1], a[2])
    [] f = "Eval" -> Eval(s, a[1], a[2])
    [] f = "Exec1" -> Exec1(s, a[1], a[2])
    [] f = "Exec" -> Exec(s, a[1], a[2])

(***************************************************************************)
(* The embedder.  A scenario is a construction script (one public call per *)
(* step, as in the repository's tests); once the script is done the        *)
(* embedder issues up to MaxOps further public calls on the handles it     *)
(* holds: writes of any value, reads, batches, disposals, triggers.        *)
(***************************************************************************)
G(i) == <<"get", i>>
K(v) == <<"const", v>>
Add(a, b) == <<"add", a, b>>
Then(a, b) == <<"seq", a, b>>
Read(i) == <<"eval", G(i)>>

If(c, a, b) == <<"if", c, a, b>>
After(body, e) == <<"do", body, e>>
Effect(body) == <<"effect", body>>
Memo(e) == <<"memo", e>>
Computed(e) == <<"computed", e>>
Provide(ty, v) == <<"provide", ty, v>>
Use(ty) == <<"use", ty>>
Has(ty) == <<"has", ty>>
Scoped(body) == <<"scoped", body>>
Invoke(i) == <<"invoke", i>>
Spawn(segs) == <<"spawn", segs>>
Signal(v) == <<"signal", v>>

Scripts ==
  [ (* memo graphs (tests/topology.rs) *)
    chain    |-> << Signal(0), Memo(G(1)), Memo(G(2)), Memo(G(3)) >>,
    diamond  |-> << Signal(0), Memo(G(1)), Memo(G(1)), Memo(Add(G(2), G(3))), Read(4) >>,
    unmark   |-> << Signal(0), Memo(G(1)), Memo(Then(G(1), K(1))),
                    Memo(Add(G(2), G(3))), Read(4) >>,
    bail     |-> << Signal(0), Memo(Then(G(1), K(1))), Memo(G(2)), Read(3) >>,
    (* effects over signals and memos (tests/effect.rs, tests/batch.rs) *)
    effects  |-> << Signal(0), Signal(0), Memo(Add(G(1), G(2))),
                    Effect(<<Read(3)>>), Effect(<<Read(1), Read(3)>>) >>,
    bailfx   |-> << Signal(0), Memo(Then(G(1), K(1))), Memo(G(2)),
                    Effect(<<Read(2)>>), Effect(<<Read(3)>>) >>,
    late     |-> << Signal(0), Memo(G(1)), Memo(G(2)), Read(3) >>,
    nested   |-> << Signal(1), Signal(1),
                    Effect(<< If(G(1), <<Effect(<<Read(2), Read(1)>>)>>, <<>>) >>) >>,
    resub    |-> << Signal(1), Signal(1),
                    Effect(<< If(G(1), <<Read(2), Effect(<<Read(2)>>)>>, <<>>) >>),
                    <<"start_batch">> >>,
    (* scopes, disposal, cleanup and trigger (tests/scope.rs, tests/trigger.rs) *)
    scopes   |-> << Signal(0),
                    <<"scope", << Signal(0), Effect(<<Read(1), <<"on_cleanup", 1>>, <<"probe">> >>),
                                  <<"scope", << Effect(<<Read(1)>>) >> >> >> >>,
                    Effect(<< Read(1), <<"scope", << Effect(<<Read(1)>>) >> >> >>) >>,
    scoped   |-> << Signal(1), Signal(1),
                    Effect(<< Read(1), <<"scope", << Effect(<<Read(2)>>) >> >> >>) >>,
    triggers |-> << Signal(0), Signal(0), Effect(<<Read(1), Read(2)>>) >>,
    cancel   |-> << Signal(0),
                    <<"scope", << Effect(<< Read(1), Effect(<<Read(1)>>) >>) >> >>,
                    Effect(<< Read(1), <<"scope", << Effect(<<Read(1)>>) >> >> >>) >>,
    (* the whole lifecycle (tests/count.rs, tests/cleanup.rs, tests/leak.rs) *)
    tree     |-> << Signal(0), Memo(G(1)),
                    Effect(<< Read(2), <<"on_cleanup", 1>> >>),
                    <<"scope", << <<"on_cleanup", 0>>,
                                  Effect(<< Read(1), <<"on_cleanup", 2>>, <<"on_cleanup", 3>> >>),
                                  <<"scope", << <<"on_cleanup", 11>>, <<"on_cleanup", 12>> >> >>,
                                  <<"on_cleanup", 1>> >> >> >>,
    rerun    |-> << Signal(1),
                    Effect(<< Read(1), Signal(0), Memo(G(2)), Read(3),
                              Effect(<<Read(1), Read(2)>>),
                              <<"scope", << Effect(<<Read(1)>>) >> >>,
                              <<"on_cleanup", 1>> >>) >>,
    (* effects that write while they run (tests/scope_util.rs, tests/effect.rs) *)
    selfwrite |-> << Signal(0),
                     Effect(<< Read(1), <<"set", 1, Add(G(1), K(1))>>, <<"probe">> >>) >>,
    selfinner |-> << Signal(0), Signal(0),
                     Effect(<< Read(1), Effect(<<Read(2)>>), <<"set", 2, K(1)>>,
                               <<"probe">>, <<"set", 1, Add(G(1), K(1))>> >>) >>,
    drained   |-> << Signal(0), Signal(0), Memo(G(1)),
                     Effect(<< Read(3), Effect(<<Read(2), <<"probe">> >>),
                               <<"set", 2, K(1)>>, <<"probe">> >>) >>,
    purged    |-> << Signal(0), <<"trigger", << Effect(<<Read(1)>>) >> >> >>,
    inscope   |-> << Signal(1), Effect(<< <<"scope", <<Read(1)>> >> >>) >>,
    (* trigger over signals and memos with their own subscribers (tests/trigger.rs) *)
    fanout    |-> << Signal(0), Signal(0), Effect(<<Read(1)>>), Effect(<<Read(2)>>) >>,
    viamemo   |-> << Signal(0), Memo(G(1)), Effect(<<Read(2)>>), Effect(<<Read(1), Read(2)>>) >>,
    (* writes seen directly and through plain computeds (tests/signal.rs) *)
    plain     |-> << Signal(0), Computed(G(1)), Computed(Add(G(2), K(1))),
                     Effect(<<Read(3)>>), Effect(<<Read(1)>>), Effect(<<Read(1), Read(2)>>) >>,
    (* an effect that writes the signals of its inner effects (tests/effect.rs) *)
    sidefx    |-> << Signal(0), Signal(0), Signal(0),
                     Effect(<< Read(3), Effect(<<Read(1)>>), Effect(<<Read(2)>>),
                               <<"set", 2, K(1)>>, <<"probe">>,
                               <<"set", 1, K(1)>>, <<"probe">> >>),
                     Effect(<<Read(3)>>) >>,
    (* contexts provided and looked up along the scope chain (tests/context.rs) *)
    nesting   |-> << Provide("Theme", 0),
                     <<"scope", << Use("Theme"), Provide("Config", 0),
                                   <<"scope", << Provide("Config", 1), Use("Theme"), Use("Config"),
                                                 <<"scope", << Provide("Theme", 1), Use("Theme"),
                                                               Use("Config") >> >>,
                                                 Use("Theme"), Use("Config") >> >>,
                                   Use("Theme"), Use("Config"), Has("Config") >> >>,
                     Use("Theme"), Has("Config") >>,
    consumer  |-> << Signal(0),
                     <<"scope", << Provide("Theme", 1), Provide("Theme", 0),
                                   Effect(<< Read(1), Use("Theme"), Has("Config"),
                                             Provide("Config", 1), Use("Config") >>) >> >> >>,
    (* closures made by scoped (tests/scope_util.rs, tests/context.rs) *)
    factory   |-> << Provide("Theme", 0),
                     <<"scope", << Provide("Theme", 1), Scoped(<<Use("Theme"), Signal(0)>>),
                                   Invoke(1), Use("Theme") >> >>,
                     Scoped(<<Use("Theme")>>),
                     <<"scope", << Invoke(1), Invoke(2), Use("Theme") >> >>,
                     Invoke(1) >>,
    nestedfn  |-> << Signal(0),
                     Scoped(<< Use("Theme"), Signal(0), Scoped(<<Use("Theme"), Signal(0)>>),
                               Invoke(0) >>),
                     Effect(<< Read(1), Invoke(1) >>) >>,
    (* read and write guards (tests/borrow_checking.rs) *)
    borrows   |-> << Signal(0),
                     Effect(<< <<"read", 1>>, <<"peek", 1>>, <<"drop", 0>>, <<"drop", 0>> >>),
                     <<"write", 1>>, <<"store", 1, 1>>, <<"drop", 1>> >>,
    twoguards |-> << Signal(0), Signal(0), <<"peek", 1>>, <<"write", 2>> >>,
    updates   |-> << Signal(0), Effect(<<Read(1)>>), <<"update", 1, 1>> >>,
    (* handles that outlive the scope that owns their node (tests/guard_validity.rs) *)
    lost      |-> << <<"export", << Signal(0), Effect(<<Read(1)>>) >> >>,
                     <<"export", << Signal(0) >> >>,
                     <<"dispose", 3>> >>,
    (* spawned tasks (tests/async.rs) *)
    race      |-> << Signal(0),
                     <<"scope", << Spawn(<< << <<"update", 1, 1>> >> >>),
                                   Spawn(<< << <<"update", 1, 1>> >> >>) >> >>,
                     <<"dispose", 2>>,
                     <<"scope", << Spawn(<< << <<"update", 1, 1>> >> >>),
                                   Spawn(<< << <<"update", 1, 1>> >> >>) >> >> >>,
    resource  |-> << Signal(0), Signal(0),
                     Effect(<< Read(1),
                               Spawn(<< <<Read(1)>>, << <<"set", 2, G(1)>> >> >>),
                               <<"scope", << Spawn(<< << <<"update", 2, 1>> >> >>) >> >> >>) >>,
    (* an effect with children and callbacks behind a memo (tests/leak.rs) *)
    protocol  |-> << Signal(0), Signal(0), Memo(Then(G(1), K(1))),
                     Effect(<< Read(3), Read(2), Signal(0),
                               Effect(<< Read(2), <<"on_cleanup", 2>> >>),
                               <<"scope", << <<"on_cleanup", 3>>, Effect(<<Read(1)>>) >> >>,
                               <<"on_cleanup", 1>> >>) >>,
    (* a memo whose getter reads a memo two steps from the same signal,    *)
    (* below memos with two subscribers each (tests/topology.rs)           *)
    shared    |-> << Signal(0), Memo(G(1)), Memo(G(2)), Memo(Add(G(1), G(3))), Memo(G(4)),
                     Memo(G(4)), Read(6), Effect(<<Read(5)>>), Effect(<<Read(5)>>) >>,
    (* every operation that sets the tracking context, one inside another  *)
    (* (tests/scope_util.rs, tests/async.rs)                               *)
    restore   |-> << Signal(0), Memo(G(1)), Scoped(<<Read(2), Signal(0)>>),
                     Effect(<< Read(1), Memo(G(2)), Read(3),
                               <<"scope", << Effect(<<Read(1)>>), Invoke(1),
                                             Spawn(<< <<Read(1)>>, <<Read(3)>> >>) >> >> >>) >>,
    (* an effect created inside the getter of a memo (tests/nested_effect_cleanup.rs) *)
    getterfx  |-> << Signal(0),
                     Memo(After(<< Effect(<< <<"scope", << <<"on_cleanup", 1>> >> >>,
                                             <<"on_cleanup", 2>> >>) >>, G(1))),
                     Read(2) >>
  ]

FreeKinds ==
  [ chain    |-> {"set", "eval"},
    diamond  |-> {"set", "eval"},
    unmark   |-> {"set", "eval"},
    bail     |-> {"set", "eval"},
    effects  |-> {"set", "eval", "start_batch", "end_batch"},
    bailfx   |-> {"set", "eval", "start_batch", "end_batch"},
    late     |-> {"set", "eval", "effect"},
    nested   |-> {"set", "start_batch", "end_batch"},
    resub    |-> {"set", "eval", "start_batch", "end_batch"},
    scopes   |-> {"set", "dispose", "trigger"},
    scoped   |-> {"set", "start_batch", "end_batch"},
    triggers |-> {"set", "trigger", "start_batch", "end_batch"},
    cancel   |-> {"set", "dispose", "start_batch", "end_batch"},
    tree     |-> {"set", "eval", "effect", "dispose", "cleanup"},
    rerun    |-> {"set", "dispose", "cleanup"},
    selfwrite |-> {"set", "start_batch", "end_batch"},
    selfinner |-> {"set", "start_batch", "end_batch"},
    drained   |-> {"set", "eval", "dispose", "start_batch", "end_batch"},
    purged    |-> {"set", "start_batch", "end_batch"},
    inscope   |-> {"set", "start_batch", "end_batch"},
    fanout    |-> {"set", "trigger", "start_batch", "end_batch"},
    viamemo   |-> {"set", "trigger", "start_batch", "end_batch"},
    plain     |-> {"set", "eval", "start_batch", "end_batch"},
    sidefx    |-> {"set", "start_batch", "end_batch"},
    nesting   |-> {"dispose", "provide", "use"},
    consumer  |-> {"set", "scope", "has"},
    factory   |-> {"invoke", "dispose"},
    nestedfn  |-> {"set", "invoke", "dispose"},
    borrows   |-> {"set", "read", "peek", "write", "drop"},
    twoguards |-> {"read", "write", "drop"},
    updates   |-> {"set", "update", "read", "write", "drop"},
    lost      |-> {"set", "eval", "read", "drop"},
    race      |-> {"poll", "dispose"},
    resource  |-> {"poll", "set"},
    protocol  |-> {"set", "dispose", "start_batch", "end_batch"},
    shared    |-> {"set", "eval", "start_batch", "end_batch"},
    restore   |-> {"set", "trigger", "poll", "invoke"},
    getterfx  |-> {"set", "eval", "effect", "cleanup"}
  ]

Script == Scripts[scenario]
Building == pc <= Len(Script)

KindOf(i) == IF handles[i] \in DOMAIN nodes THEN nodes[handles[i]].kind ELSE "stale"

(* the constructor that returned handle i: those of the script in order,   *)
(* then the effects the embedder created afterwards                        *)
Makers ==
  SelectSeq(Script, LAMBDA st : st[1] \in {"signal", "memo", "computed", "effect", "scope", "invoke"})
MadeBy(i) == IF i <= Len(Makers) THEN Makers[i][1] ELSE "effect"

(* a Scope or Effect handle is Copy and outlives its node *)
Disposable(i) ==
  \/ KindOf(i) \in {"Effect", "None"}
  \/ KindOf(i) = "stale" /\ MadeBy(i) \in {"effect", "scope", "invoke"}

(* the scenarios whose trigger closures also read memos, or read nothing *)
Triggering == {"fanout", "viamemo"}

(* the types T of provide_context<T> and use_context<T> *)
ContextTypes == {"Theme", "Config"}

FreeOps ==
  LET H == 1..Len(handles)
      Sources == {j \in H : KindOf(j) \in {"Signal", "Computed"}}
      Signals == {j \in H : KindOf(j) = "Signal"}
      Triggered == IF scenario \in Triggering THEN Sources ELSE Signals
      Lost == {j \in H : scenario = "lost" /\ KindOf(j) = "stale" /\ j \in {1}}
  IN   { <<"set", i, K(v)>> : i \in Signals, v \in 0..MaxVal }
  \cup { Read(i) : i \in Sources }
  \cup { Effect(<<Read(i)>>) : i \in Sources }
  \cup { <<"dispose", i>> : i \in {j \in H : Disposable(j)} }
  \cup { <<"trigger", <<Read(i), <<"probe">> >> >> : i \in Triggered }
  \cup { <<"trigger", <<Read(p[1]), Read(p[2])>> >> :
            p \in {q \in Triggered \X Triggered : q[1] # q[2]} }
  \cup { <<"trigger", <<>> >> : i \in {j \in {1} : scenario \in Triggering} }
  \cup { <<"start_batch">>, <<"end_batch">>, <<"cleanup">> }
  \cup { Provide(ty, v) : ty \in ContextTypes, v \in 0..MaxVal }
  \cup { Use(ty) : ty \in ContextTypes }
  \cup { Invoke(i) : i \in 1..Len(factories) }
  \cup { <<"read", i>> : i \in Signals }
  \cup { <<"peek", i>> : i \in Signals }
  \cup { <<"write", i>> : i \in Signals }
  \cup { <<"drop", g>> : g \in 1..Len(guards) }
  \cup { <<"update", i, 1>> : i \in Signals }
  \cup { <<"poll", i>> : i \in {j \in 1..Len(tasks) : ~tasks[j].done} }
  \cup { <<"set", i, K(1)>> : i \in Lost }
  \cup { Read(i) : i \in Lost }
  \cup { <<"read", i>> : i \in Lost }
  \cup { Has(ty) : ty \in ContextTypes }
  \cup { <<"scope", <<Provide(ty, 1), Use("Theme"), Has("Config")>> >> : ty \in ContextTypes }
  \cup { <<"scope", << Use(ty), <<"scope", <<Provide(ty, 1), Use(ty)>> >>, Has(ty) >> >> :
            ty \in ContextTypes }

Offered ==
  IF panic # NoPanic THEN {}
  ELSE IF Building THEN {Script[pc]}
  ELSE IF ops < MaxOps THEN {st \in FreeOps : st[1] \in FreeKinds[scenario]}
  ELSE {}

(* the effects of the subtree of node top: top itself and every node that  *)
(* reaches top along its parent fields                                     *)
RECURSIVE Under(_, _, _, _)
Under(ns, k, top, n) ==
  \/ k = top
  \/ n > 0 /\ k \in DOMAIN ns /\ ns[k].parent \in DOMAIN ns /\ Under(ns, ns[k].parent, top, n - 1)

EffectsUnder(ns, top) ==
  {k \in DOMAIN ns : ns[k].kind = "Effect" /\ Under(ns, k, top, Cardinality(DOMAIN ns))}

(* the nodes a getter expression reads *)
RECURSIVE ReadsOfExpr(_, _)
ReadsOfExpr(e, env) ==
  IF e[1] = "const" THEN {}
  ELSE IF e[1] = "get" THEN {env[e[2]]}
  ELSE IF e[1] \in {"add", "eq", "seq"} THEN ReadsOfExpr(e[2], env) \cup ReadsOfExpr(e[3], env)
  ELSE IF e[1] = "do" THEN ReadsOfExpr(e[3], env)
  ELSE ReadsOfExpr(e[2], env) \cup ReadsOfExpr(e[3], env) \cup ReadsOfExpr(e[4], env)

(* the signals and computeds that the getter of computed k reads, directly *)
(* or through other computeds                                              *)
RECURSIVE Upstream(_, _, _)
Upstream(ns, k, n) ==
  IF n = 0 \/ k \notin DOMAIN ns THEN {}
  ELSE IF ns[k].kind # "Computed" THEN {}
  ELSE LET r == ReadsOfExpr(ns[k].body, ns[k].env)
       IN r \cup UNION {Upstream(ns, d, n - 1) : d \in r}
UpstreamOf(ns, k) == Upstream(ns, k, Cardinality(DOMAIN ns))

(* the computeds that have a value and one of whose sources was written    *)
(* since they were last evaluated or read                                  *)
StaleAfter(st, s) ==
  LET ns == s.nodes
      evald == {k \in DOMAIN ns : \E i \in 1..Len(s.log) : s.log[i] = <<"getter", k>>}
      wr == IF st[1] = "set"
            THEN {k \in DOMAIN ns : handles[st[2]] \in UpstreamOf(ns, k)}
            ELSE {}
      rd == IF st[1] = "eval" /\ st[2][1] = "get" /\ Ok(s)
            THEN {handles[st[2][2]]} \cup UpstreamOf(ns, handles[st[2][2]])
            ELSE {}
  IN ((stale \cup wr) \ (evald \cup rd)) \cap DOMAIN ns

(* the embedder's record of a finished call: r is what the call returned  *)
(* the tasks whose scope this operation has removed or run again *)
CancelledBy(s) ==
  {i \in 1..Len(tasks) :
     \/ tasks[i].scope \notin DOMAIN s.nodes
     \/ \E j \in 1..Len(s.log) : s.log[j] = <<"run", tasks[i].scope>>}

Done(st, r) ==
  /\ Commit(r.s)
  /\ handles' = r.env
  /\ lastop' = st
  /\ before' = nodes
  /\ lastop2' = lastop
  /\ before2' = before
  /\ log2' = log
  /\ prior' = Sys
  /\ base' = IF st[1] \in {"effect", "scope"} /\ Ok(r.s)
             THEN (r.env[Len(r.env)] :> [n0 |-> count(Sys), n1 |-> count(r.s)]) @@ base
             ELSE base
  /\ stale' = StaleAfter(st, r.s)
  /\ stale0' = stale
  /\ cancelled' = cancelled \cup CancelledBy(r.s)
  /\ cancelled0' = cancelled
  /\ visited' = r.s.visits
  /\ entered' = r.s.entries
  /\ disposed' = IF st[1] = "dispose" /\ handles[st[2]] \in DOMAIN nodes
                 THEN disposed \cup EffectsUnder(nodes, handles[st[2]])
                 ELSE disposed
  /\ written' = IF batch_depth = 0 THEN {}
                ELSE IF st[1] = "set" THEN written \cup {handles[st[2]]}
                ELSE written
  /\ scenario' = scenario
  /\ IF Building THEN pc' = pc + 1 /\ ops' = ops
     ELSE pc' = pc /\ ops' = ops + 1

Do(st) == Done(st, Call("Exec1", Sys, <<st, handles>>))

InitSys ==
  /\ nodes = (Root :> ReactiveNode_new("None", NONE, None))
  /\ links = <<>>
  /\ cycle = 0
  /\ batch_depth = 0
  /\ notify_index = 0
  /\ queued_length = 0
  /\ queued = <<>>
  /\ stack = <<>>
  /\ active_sub = None
  /\ current_scope = Root
  /\ cleanups = <<>>
  /\ next_node = Root + 1
  /\ next_link = 1
  /\ panic = NoPanic
  /\ log = <<>>
  /\ handles = <<>>
  /\ pc = 1
  /\ ops = 0
  /\ lastop = <<"new">>
  /\ before = nodes
  /\ lastop2 = <<"new">>
  /\ before2 = nodes
  /\ written = {}
  /\ triggers = {}
  /\ contexts = <<>>
  /\ factories = <<>>
  /\ borrow_state = <<>>
  /\ guards = <<>>
  /\ tasks = <<>>
  /\ cancelled = {}
  /\ cancelled0 = {}
  /\ visited = <<>>
  /\ entered = <<>>
  /\ log2 = <<>>
  /\ disposed = {}
  /\ prior = Sys
  /\ base = <<>>
  /\ stale = {}
  /\ stale0 = {}

Graphs == {"chain", "diamond", "unmark", "bail"}
Effects == {"effects", "bailfx", "late", "nested", "resub"}
Scopes == {"scopes", "scoped", "triggers", "cancel"}

Lifecycle == {"tree", "rerun"}
Writes == {"plain", "sidefx"}
Contexts == {"nesting", "consumer"}
Factories == {"factory", "nestedfn"}
Borrows == {"borrows", "twoguards"}
Reentry == {"selfwrite", "selfinner", "drained", "purged", "inscope"}

Init == InitSys /\ scenario \in Graphs
InitEffects == InitSys /\ scenario \in Effects
InitScopes == InitSys /\ scenario \in Scopes
InitLifecycle == InitSys /\ scenario \in Lifecycle
InitReentry == InitSys /\ scenario \in Reentry
InitTrigger == InitSys /\ scenario \in Triggering
InitWrites == InitSys /\ scenario \in Writes
InitContext == InitSys /\ scenario \in Contexts
InitFactory == InitSys /\ scenario \in Factories
InitBorrow == InitSys /\ scenario \in Borrows
InitUpdate == InitSys /\ scenario = "updates"
InitDisposed == InitSys /\ scenario = "lost"
InitAsync == InitSys /\ scenario \in {"race", "resource"}
InitProtocol == InitSys /\ scenario = "protocol"
InitShared == InitSys /\ scenario = "shared"
InitRestore == InitSys /\ scenario = "restore"
InitGetter == InitSys /\ scenario = "getterfx"

SignalNew == \E st \in Offered : st[1] = "signal" /\ Do(st)
MemoNew == \E st \in Offered : st[1] = "memo" /\ Do(st)
ComputedNew == \E st \in Offered : st[1] = "computed" /\ Do(st)
EffectNew == \E st \in Offered : st[1] = "effect" /\ Do(st)
ScopeNew == \E st \in Offered : st[1] = "scope" /\ Do(st)
Get == \E st \in Offered : st[1] = "eval" /\ Do(st)
Set == \E st \in Offered : st[1] = "set" /\ Do(st)
Dispose == \E st \in Offered : st[1] = "dispose" /\ Do(st)
StartBatch == \E st \in Offered : st[1] = "start_batch" /\ batch_depth < MaxBatch /\ Do(st)
EndBatch == \E st \in Offered : st[1] = "end_batch" /\ batch_depth > 0 /\ Do(st)
Trigger == \E st \in Offered : st[1] = "trigger" /\ Do(st)
Cleanup == \E st \in Offered : st[1] = "cleanup" /\ Do(st)
ProvideContext == \E st \in Offered : st[1] = "provide" /\ Do(st)
UseContext == \E st \in Offered : st[1] = "use" /\ Do(st)
HasContext == \E st \in Offered : st[1] = "has" /\ Do(st)
ReadGuard == \E st \in Offered : st[1] = "read" /\ Do(st)
PeekGuard == \E st \in Offered : st[1] = "peek" /\ Do(st)
WriteGuard == \E st \in Offered : st[1] = "write" /\ Do(st)
StoreGuard == \E st \in Offered : st[1] = "store" /\ Do(st)
GuardDrop == \E st \in Offered : st[1] = "drop" /\ Do(st)
Poll == \E st \in Offered : st[1] = "poll" /\ Do(st)
ScopeExport == \E st \in Offered : st[1] = "export" /\ Do(st)
Update == \E st \in Offered : st[1] = "update" /\ Do(st)
ScopedNew == \E st \in Offered : st[1] = "scoped" /\ Do(st)
ScopedCall == \E st \in Offered : st[1] = "invoke" /\ Do(st)

Next ==
  \/ SignalNew
  \/ MemoNew
  \/ Get
  \/ Set

NextEffects ==
  \/ SignalNew
  \/ MemoNew
  \/ EffectNew
  \/ Get
  \/ Set
  \/ StartBatch
  \/ EndBatch

NextScopes ==
  \/ SignalNew
  \/ EffectNew
  \/ ScopeNew
  \/ Set
  \/ Dispose
  \/ Trigger
  \/ StartBatch
  \/ EndBatch

NextLifecycle ==
  \/ SignalNew
  \/ MemoNew
  \/ EffectNew
  \/ ScopeNew
  \/ Get
  \/ Set
  \/ Dispose
  \/ Cleanup

NextReentry ==
  \/ SignalNew
  \/ MemoNew
  \/ EffectNew
  \/ Get
  \/ Set
  \/ Dispose
  \/ Trigger
  \/ StartBatch
  \/ EndBatch

NextTrigger ==
  \/ SignalNew
  \/ MemoNew
  \/ EffectNew
  \/ Set
  \/ Trigger
  \/ StartBatch
  \/ EndBatch

NextWrites ==
  \/ SignalNew
  \/ ComputedNew
  \/ EffectNew
  \/ Get
  \/ Set
  \/ StartBatch
  \/ EndBatch

NextContext ==
  \/ SignalNew
  \/ ScopeNew
  \/ Set
  \/ Dispose
  \/ ProvideContext
  \/ UseContext
  \/ HasContext

NextFactory ==
  \/ SignalNew
  \/ EffectNew
  \/ ScopeNew
  \/ Set
  \/ Dispose
  \/ ProvideContext
  \/ ScopedNew
  \/ ScopedCall

NextBorrow ==
  \/ SignalNew
  \/ EffectNew
  \/ Set
  \/ ReadGuard
  \/ PeekGuard
  \/ WriteGuard
  \/ StoreGuard
  \/ GuardDrop

NextUpdate ==
  \/ SignalNew
  \/ EffectNew
  \/ Set
  \/ Update
  \/ ReadGuard
  \/ WriteGuard
  \/ GuardDrop

NextDisposed ==
  \/ ScopeExport
  \/ Dispose
  \/ Get
  \/ Set
  \/ ReadGuard
  \/ GuardDrop

NextAsync ==
  \/ SignalNew
  \/ EffectNew
  \/ ScopeNew
  \/ Set
  \/ Dispose
  \/ Poll

NextProtocol ==
  \/ SignalNew
  \/ MemoNew
  \/ EffectNew
  \/ Set
  \/ Dispose
  \/ StartBatch
  \/ EndBatch

NextShared ==
  \/ SignalNew
  \/ MemoNew
  \/ EffectNew
  \/ Get
  \/ Set
  \/ StartBatch
  \/ EndBatch

NextRestore ==
  \/ SignalNew
  \/ MemoNew
  \/ EffectNew
  \/ ScopedNew
  \/ ScopedCall
  \/ Set
  \/ Trigger
  \/ Poll

NextGetter ==
  \/ SignalNew
  \/ MemoNew
  \/ EffectNew
  \/ Get
  \/ Set
  \/ Cleanup

Spec == Init /\ [][Next]_vars
SpecEffects == InitEffects /\ [][NextEffects]_vars
SpecScopes == InitScopes /\ [][NextScopes]_vars
SpecLifecycle == InitLifecycle /\ [][NextLifecycle]_vars
SpecReentry == InitReentry /\ [][NextReentry]_vars
SpecTrigger == InitTrigger /\ [][NextTrigger]_vars
SpecWrites == InitWrites /\ [][NextWrites]_vars
SpecContext == InitContext /\ [][NextContext]_vars
SpecFactory == InitFactory /\ [][NextFactory]_vars
SpecBorrow == InitBorrow /\ [][NextBorrow]_vars
SpecUpdate == InitUpdate /\ [][NextUpdate]_vars
SpecDisposed == InitDisposed /\ [][NextDisposed]_vars
SpecAsync == InitAsync /\ [][NextAsync]_vars
SpecProtocol == InitProtocol /\ [][NextProtocol]_vars
SpecShared == InitShared /\ [][NextShared]_vars
SpecRestore == InitRestore /\ [][NextRestore]_vars
SpecGetter == InitGetter /\ [][NextGetter]_vars

NoPanicInv == panic = NoPanic

(***************************************************************************)
(* Reference semantics: the value a getter yields when it and every        *)
(* computed it reads are evaluated from scratch on the signal values of    *)
(* the arena ns (getters are pure functions of their reads).               *)
(***************************************************************************)
RECURSIVE FromScratch(_, _, _)
FromScratch(ns, e, env) ==
  IF e[1] = "const" THEN e[2]
  ELSE IF e[1] = "get"
  THEN IF e[2] > Len(env) \/ env[e[2]] \notin DOMAIN ns THEN NoVal
       ELSE LET n == ns[env[e[2]]]
            IN IF n.kind = "Signal" THEN n.value ELSE FromScratch(ns, n.body, n.env)
  ELSE IF e[1] = "add"
  THEN (FromScratch(ns, e[2], env) + FromScratch(ns, e[3], env)) % ValMod
  ELSE IF e[1] = "eq"
  THEN IF FromScratch(ns, e[2], env) = FromScratch(ns, e[3], env) THEN 1 ELSE 0
  ELSE IF e[1] = "seq" THEN FromScratch(ns, e[3], env)
  ELSE IF FromScratch(ns, e[2], env) # 0 THEN FromScratch(ns, e[3], env)
  ELSE FromScratch(ns, e[4], env)

(* the from-scratch value of node k of arena ns *)
Fresh(ns, k) ==
  IF ns[k].kind = "Signal" THEN ns[k].value ELSE FromScratch(ns, ns[k].body, ns[k].env)

(* the nodes an effect body reads in its own statements (a nested         *)
(* effect's reads are its own)                                             *)
RECURSIVE ReadsOfBody(_, _)
ReadsOfBody(body, env) ==
  IF body = <<>> THEN {}
  ELSE LET st == body[1]
           here == IF st[1] = "eval" THEN ReadsOfExpr(st[2], env)
                   ELSE IF st[1] = "if" THEN ReadsOfExpr(st[2], env)
                   ELSE {}
       IN here \cup ReadsOfBody(Tail(body), env)

Inputs(ns, k) ==
  IF ns[k].kind = "Effect" THEN ReadsOfBody(ns[k].body, ns[k].env)
  ELSE IF ns[k].kind = "Computed" THEN ReadsOfExpr(ns[k].body, ns[k].env)
  ELSE {}

(* the from-scratch values of the inputs of k *)
InputValues(ns, k) ==
  [d \in Inputs(ns, k) |-> IF d \in DOMAIN ns THEN Fresh(ns, d) ELSE NoVal]

EffectsOf(ns) == {k \in DOMAIN ns : ns[k].kind = "Effect"}
ComputedsOf(ns) == {k \in DOMAIN ns : ns[k].kind = "Computed"}

(* what the last operation did *)
Count(ev) == Occurrences(log, ev)
Runs(k) == Count(<<"run", k>>)
Evals(k) == Count(<<"getter", k>>)
First(ev) == IF Count(ev) = 0 THEN 0 ELSE CHOOSE i \in 1..Len(log) :
               log[i] = ev /\ \A j \in 1..(i - 1) : log[j] # ev
IsSaw(ev) == ev[1] = "saw"
SawBy(k) == SelectSeq(log, LAMBDA ev : ev[1] = "saw" /\ ev[2] = k)
Returned == log[Len(log)][3]
Target == handles[lastop[2]]

(* an effect that was live before the last operation and is live after it *)
LiveEffects == EffectsOf(before) \cap EffectsOf(nodes)

ReadOfComputed ==
  /\ lastop[1] = "eval" /\ lastop[2][1] = "get"
  /\ lastop[2][2] <= Len(handles)
  /\ handles[lastop[2][2]] \in ComputedsOf(before)

(***************************************************************************)
(* C1: a tracked read of a memo or computed returns the value its getter   *)
(* yields when it and every computed it reads are re-evaluated from        *)
(* scratch on the current signal values.                                   *)
(***************************************************************************)
C1_ReadConsistency ==
  ReadOfComputed =>
    (panic = NoPanic /\ Returned = FromScratch(nodes, lastop[2], handles))

(***************************************************************************)
(* C2: one unbatched write runs every live effect that has an input whose  *)
(* from-scratch value the write changed exactly once in the flush.         *)
(***************************************************************************)
UnbatchedWrite == lastop[1] = "set" /\ batch_depth = 0

C2_ExactlyOnce ==
  UnbatchedWrite =>
    /\ panic = NoPanic
    /\ \A e \in LiveEffects :
         InputValues(before, e) # InputValues(nodes, e) => Runs(e) = 1

(***************************************************************************)
(* C3: in the diamond a, b = memo(a), c = memo(a), d = memo(b, c), once d  *)
(* has been read and the graph is settled, one write to a that changes b   *)
(* and c followed by one read of d evaluates the getters of b, c and d     *)
(* exactly once each, and d returns the value of the updated b and c.      *)
(***************************************************************************)
UpToDate(ns, k) == ns[k].value = Fresh(ns, k)
Settled(ns, k) == ns[k].flags = MUTABLE /\ (ns[k].kind = "Computed" => UpToDate(ns, k))

WriteThenReadOfDiamond ==
  /\ scenario = "diamond" /\ Len(handles) = 4
  /\ lastop2[1] = "set" /\ lastop = Read(4)
  /\ \A i \in 1..4 : Settled(before2, handles[i])
  /\ \A i \in 2..3 : Fresh(before2, handles[i]) # Fresh(before, handles[i])

C3_DiamondOnce ==
  WriteThenReadOfDiamond =>
    /\ panic = NoPanic
    /\ Evals(handles[4]) = 1
    /\ \A i \in 2..4 : Evals(handles[i]) = 1 /\ UpToDate(nodes, handles[i])
    /\ Returned = Fresh(nodes, handles[4])

C3_Witness ==
  /\ WriteThenReadOfDiamond
  /\ Evals(handles[4]) = 1
  /\ Returned = (2 * nodes[handles[1]].value) % ValMod
  /\ ops > 2

(***************************************************************************)
(* C4: when a source signal is written and the memos a node reads          *)
(* recompute to their previous values, a memo is not re-evaluated by the   *)
(* next read and an effect is not re-run by the write, and the PENDING     *)
(* flag of that memo or effect is cleared.                                 *)
(***************************************************************************)
IsMemo(ns, k) == k \in DOMAIN ns /\ ns[k].kind = "Computed" /\ ns[k].memo

ReadsOnlyMemos(ns, k) ==
  Inputs(ns, k) # {} /\ \A d \in Inputs(ns, k) : IsMemo(ns, d)

(* a memo: up to date before the write, its inputs keep their values *)
BailoutOfMemo(k) ==
  /\ lastop2[1] = "set" /\ lastop[1] = "eval" /\ lastop[2] = G(lastop[2][2])
  /\ handles[lastop[2][2]] = k
  /\ IsMemo(before2, k) /\ ReadsOnlyMemos(before2, k)
  /\ UpToDate(before2, k) /\ \A d \in Inputs(before2, k) : UpToDate(before2, d)
  /\ contains(before[k].flags, PENDING)
  /\ InputValues(before2, k) = InputValues(before, k)

(* an effect: clean before the unbatched write, its inputs keep their values *)
BailoutOfEffect(e) ==
  /\ UnbatchedWrite
  /\ e \in LiveEffects /\ ReadsOnlyMemos(before, e)
  /\ before[e].flags = WATCHING
  /\ \A d \in Inputs(before, e) : UpToDate(before, d)
  /\ InputValues(before, e) = InputValues(nodes, e)

C4_MemoBailout ==
  /\ \A k \in DOMAIN nodes :
       BailoutOfMemo(k) =>
         (panic = NoPanic /\ Evals(k) = 0 /\ ~contains(nodes[k].flags, PENDING))
  /\ \A e \in DOMAIN nodes :
       BailoutOfEffect(e) =>
         (panic = NoPanic /\ Runs(e) = 0 /\ ~contains(nodes[e].flags, PENDING))

(***************************************************************************)
(* C5: inside a batch no write runs an effect; when the outermost          *)
(* end_batch returns, every effect that reads a signal written in the      *)
(* batch has run exactly once and has seen the last values written.        *)
(***************************************************************************)
NoRun == \A i \in 1..Len(log) : log[i][1] # "run"

SeesCurrent(e) ==
  \A i \in 1..Len(nodes[e].body) :
    nodes[e].body[i][1] = "eval" =>
      \E j \in 1..Len(log) :
        log[j] = <<"saw", e, FromScratch(nodes, nodes[e].body[i][2], nodes[e].env)>>

BatchEnded == lastop[1] = "end_batch" /\ batch_depth = 0

C5_Batching ==
  /\ (lastop[1] = "set" /\ batch_depth > 0) => (panic = NoPanic /\ NoRun)
  /\ BatchEnded =>
       /\ panic = NoPanic
       /\ \A e \in LiveEffects :
            (Inputs(before, e) \cap written # {}) => (Runs(e) = 1 /\ SeesCurrent(e))

(***************************************************************************)
(* C6: in one flush an effect is drained before an effect created inside   *)
(* its body; when the outer effect re-runs, the inner effect of its        *)
(* previous run is disposed and its body does not run.                     *)
(***************************************************************************)
RECURSIVE CreatedInside(_, _, _, _)
CreatedInside(ns, inner, outer, n) ==
  /\ n > 0
  /\ inner \in DOMAIN ns
  /\ LET p == ns[inner].parent
     IN \/ p = outer
        \/ /\ p \in DOMAIN ns /\ ns[p].kind = "None" /\ p # Root
           /\ CreatedInside(ns, p, outer, n - 1)

Nested(inner, outer) ==
  /\ inner \in EffectsOf(before) /\ outer \in EffectsOf(before)
  /\ CreatedInside(before, inner, outer, Cardinality(DOMAIN before))

C6_OuterFirst ==
  \A outer \in EffectsOf(before) : \A inner \in EffectsOf(before) :
    Nested(inner, outer) =>
      /\ (Count(<<"drain", outer>>) > 0 /\ Count(<<"drain", inner>>) > 0)
           => First(<<"drain", outer>>) < First(<<"drain", inner>>)
      /\ Runs(outer) > 0 => (panic = NoPanic /\ Runs(inner) = 0 /\ inner \notin DOMAIN nodes)

(***************************************************************************)
(* C7: after every public operation every link is exactly once in its      *)
(* dep's subscriber list and once in its sub's dependency list, neighbours *)
(* point at each other, and the anchors of every node are the ends of its  *)
(* lists.                                                                  *)
(***************************************************************************)
C7_LinkIntegrity == panic = NoPanic => LinkIntegrity(Sys)

(***************************************************************************)
(* C8: every node but the root is in exactly one child list, that of its   *)
(* live parent, with mutual sibling pointers, in the states between        *)
(* operations and in those a closure observes; a parent never changes.     *)
(***************************************************************************)
Probes == {i \in 1..Len(log) : log[i][1] = "probe"}
ParentsKept == \A k \in DOMAIN before \cap DOMAIN nodes : nodes[k].parent = before[k].parent

C8_ScopeTree ==
  /\ panic = NoPanic => ScopeTree(Sys, {})
  /\ \A i \in Probes : log[i][2] = {}
  /\ ParentsKept

(* the same, but for the throw-away subscriber of a trigger in progress,   *)
(* which has a parent field and is in no child list                        *)
C8_ScopeTreeButTrigger ==
  /\ panic = NoPanic => ScopeTree(Sys, TriggerNodes(Sys))
  /\ \A i \in Probes : log[i][2] \subseteq log[i][3]
  /\ ParentsKept

C8_Witness ==
  /\ panic = NoPanic
  /\ lastop[1] = "dispose"
  /\ Cardinality(DOMAIN before \ DOMAIN nodes) >= 2
  /\ Cardinality(DOMAIN nodes) >= 4
  /\ \E k \in DOMAIN nodes : nodes[k].prev # None
  /\ ScopeTree(Sys, {})

(***************************************************************************)
(* C9: when a top-level operation returns with batch_depth = 0 the queue   *)
(* is drained: queued_length = 0 and notify_index = 0.                     *)
(***************************************************************************)
C9_QueueDrained ==
  (panic = NoPanic /\ batch_depth = 0) => (queued_length = 0 /\ notify_index = 0)

(***************************************************************************)
(* C10: the queue holds every effect that is marked DIRTY or PENDING, and  *)
(* no key occurs twice in queued[0..queued_length).                        *)
(***************************************************************************)
Queued == {queued[i] : i \in (notify_index + 1)..queued_length}
Marked == {e \in EffectsOf(nodes) : intersects(nodes[e].flags, DIRTY \cup PENDING)}

C10_QueueContent ==
  panic = NoPanic =>
    /\ Marked \subseteq Queued
    /\ QueueDup(Sys) = {}
    /\ \A i \in Probes : log[i][4] = {}

(***************************************************************************)
(* C11: for a memo M that reads a signal S and an effect that reads M, two *)
(* successive writes S.set(x); S.set(x) of the same value evaluate the     *)
(* getter of M at most once in total and run the effect at most once in    *)
(* total.                                                                  *)
(***************************************************************************)
SameWriteTwice == lastop[1] = "set" /\ lastop2 = lastop

MemosOver(ns, sig) == {m \in DOMAIN ns : IsMemo(ns, m) /\ sig \in Inputs(ns, m)}
EffectsOver(ns, m) == {e \in EffectsOf(ns) : m \in Inputs(ns, e)}

(* over the last two operations *)
Evals2(k) == Occurrences(log2, <<"getter", k>>) + Evals(k)
Runs2(k) == Occurrences(log2, <<"run", k>>) + Runs(k)

C11_SameValueTwice ==
  SameWriteTwice =>
    /\ panic = NoPanic
    /\ \A m \in MemosOver(before2, Target) :
         /\ Evals2(m) <= 1
         /\ \A e \in EffectsOver(before2, m) : Runs2(e) <= 1

(***************************************************************************)
(* C12: once a scope or effect has been disposed through its handle, the   *)
(* body of no effect that was it or one of its descendants runs again, in  *)
(* any later operation; an effect that was in the queue when it was        *)
(* disposed is skipped when the queue is drained.                          *)
(***************************************************************************)
C12_Cancellation ==
  disposed # {} => (panic = NoPanic /\ \A k \in disposed : Runs(k) = 0)

(* a batch is ended after an effect that it queued was disposed: the stale *)
(* key is drained and nothing runs                                         *)
C12_Witness ==
  /\ panic = NoPanic
  /\ BatchEnded
  /\ \E k \in disposed : Count(<<"drain", k>>) > 0 /\ Runs(k) = 0

(***************************************************************************)
(* C13: cleanup() called at the top level, after any construction, reads,  *)
(* writes and disposals, leaves count() = (1, 0): the root alone in the    *)
(* node arena and no link.                                                 *)
(***************************************************************************)
C13_CleanupEmpties ==
  lastop = <<"cleanup">> =>
    (panic = NoPanic /\ count(Sys) = <<1, 0>> /\ DOMAIN nodes = {Root})

(* a cleanup of a graph of at least six nodes and three links *)
C13_Witness ==
  /\ lastop = <<"cleanup">>
  /\ panic = NoPanic
  /\ count(Sys) = <<1, 0>>
  /\ Cardinality(DOMAIN before) >= 6
  /\ Cardinality(DOMAIN prior.links) >= 3
  /\ ops > 1

(***************************************************************************)
(* C14: an effect whose body reads signals and creates child nodes leaves  *)
(* the (nodes, links) count as it was after its first run each time it     *)
(* re-runs; disposing it, or the scope that encloses it, brings the count  *)
(* back to what it was just before the effect, or the scope, was created.  *)
(***************************************************************************)
(* the dependencies of e are signals or nodes of its own subtree *)
SignalReader(S, e) ==
  \A i \in 1..Len(deps_list(S, e)) :
    LET d == S.links[deps_list(S, e)[i]].dep
    IN \/ d \in DOMAIN S.nodes /\ S.nodes[d].kind = "Signal"
       \/ Under(S.nodes, d, e, Cardinality(DOMAIN S.nodes))

SignalReaders(S, k) == \A e \in EffectsUnder(S.nodes, k) : SignalReader(S, e)

(* nothing was created or disposed at the top level since handle k was made *)
Latest(k) ==
  /\ handles[Len(handles)] = k
  /\ \A i \in 1..Len(handles) : handles[i] \in DOMAIN nodes

Latest2(k) ==
  /\ handles[Len(handles)] = k
  /\ \A i \in 1..(Len(handles) - 1) : handles[i] \in DOMAIN nodes

ReRunBy(e) ==
  /\ lastop[1] = "set" /\ e \in EffectsOf(before) /\ Runs(e) >= 1
  /\ SignalReader(prior, e)

DisposalOf(k) ==
  /\ lastop[1] = "dispose" /\ Target = k
  /\ k \in DOMAIN before /\ k \in DOMAIN base
  /\ SignalReaders(prior, k)

Reverse(seq) == [i \in 1..Len(seq) |-> seq[Len(seq) + 1 - i]]

Max(ks) == CHOOSE k \in ks : \A j \in ks : j <= k

(* the scopes and effects created directly under n; keys grow with creation *)
Kids(S, n) ==
  {k \in DOMAIN S.nodes : S.nodes[k].parent = n /\ S.nodes[k].kind \in {"Effect", "None"}}

Callbacks(S, n) ==
  IF n \in DOMAIN S.cleanups
  THEN [i \in 1..Len(S.cleanups[n]) |-> <<"cleanup", n, Reverse(S.cleanups[n])[i]>>]
  ELSE <<>>

(* the order the claim prescribes for the sibling nodes ks and their subtrees *)
RECURSIVE CleanupOrder(_, _)
CleanupOrder(S, ks) ==
  IF ks = {} THEN <<>>
  ELSE LET k == Max(ks)
       IN CleanupOrder(S, Kids(S, k)) \o Callbacks(S, k) \o CleanupOrder(S, ks \ {k})

CleanupLog == SelectSeq(log, LAMBDA ev : ev[1] = "cleanup")

Disposal == lastop[1] = "dispose" /\ Target \in DOMAIN before

C15_CleanupOrder ==
  Disposal => (panic = NoPanic /\ CleanupLog = CleanupOrder(prior, {Target}))

(* an outer scope registering 0 and 1 around an effect registering 2, 3    *)
(* and an inner scope registering 11, 12                                   *)
C15_Witness ==
  /\ Disposal /\ panic = NoPanic
  /\ [i \in 1..Len(CleanupLog) |-> CleanupLog[i][3]] = <<12, 11, 3, 2, 1, 0>>
  /\ Cardinality({CleanupLog[i][2] : i \in 1..Len(CleanupLog)}) = 3

(***************************************************************************)
(* C16: dispose on a scope or effect handle whose node is already disposed *)
(* (directly, or with an ancestor) changes nothing: no node, link, flag,   *)
(* queue entry or cleanup list is modified and no callback runs, also when *)
(* other nodes were created in between.                                    *)
(***************************************************************************)
Redispose == lastop[1] = "dispose" /\ Target \notin DOMAIN before

C16_DisposeIdempotent ==
  Redispose => (panic = NoPanic /\ log = <<>> /\ Sys = prior)

(* the handle was disposed, then an effect was created, then the handle    *)
(* was disposed again                                                      *)
C16_Witness ==
  /\ Redispose /\ panic = NoPanic
  /\ lastop2[1] = "effect" /\ Target \notin DOMAIN before2
  /\ DOMAIN before # DOMAIN before2
  /\ Sys = prior

(***************************************************************************)
(* C17: when a cleanup callback registered on node N runs, on the disposal *)
(* or the re-run of N, every child of N has been removed from the arena    *)
(* with its links, and the dependency and subscriber links of N itself are *)
(* still present.                                                          *)
(***************************************************************************)
AtCleanup == {i \in 1..Len(log) : log[i][1] = "at_cleanup" /\ log[i][2] \in DOMAIN before}

C17_AfterTeardown ==
  \A i \in AtCleanup :
    /\ panic = NoPanic
    /\ log[i][3] = {}
    /\ LinksOf(prior, log[i][2]) \subseteq log[i][4]

(* C17, as the code has it: when a cleanup callback of N runs, nothing has *)
(* been torn down yet; the children N had are all in the arena, and the    *)
(* links of N are those it had.                                            *)
C17_BeforeTeardown ==
  \A i \in AtCleanup :
    /\ panic = NoPanic
    /\ log[i][3] = ChildrenOf(prior, log[i][2])
    /\ log[i][4] = LinksOf(prior, log[i][2])

(* a callback of a node with two or more children and a link of its own *)
C17_Witness ==
  /\ panic = NoPanic
  /\ \E i \in AtCleanup : Cardinality(log[i][3]) >= 2 /\ log[i][4] # {}
  /\ \E i \in AtCleanup : lastop[1] = "dispose"

(* C18: an effect that writes a signal it reads terminates, and its body   *)
(* executes at most twice in one operation (the run and one re-run).       *)
SelfWriting(ns, e) ==
  /\ e \in DOMAIN ns
  /\ ns[e].kind = "Effect"
  /\ \E i \in 1..Len(ns[e].body) :
        /\ ns[e].body[i][1] = "set"
        /\ ns[e].env[ns[e].body[i][2]] \in DOMAIN ns
        /\ \E l \in DOMAIN links : links[l].sub = e /\ links[l].dep = ns[e].env[ns[e].body[i][2]]
SelfWriters == {e \in DOMAIN nodes : SelfWriting(nodes, e)}
C18_SelfWriteTerminates ==
  SelfWriters # {} => (panic = NoPanic /\ \A e \in SelfWriters : Runs(e) <= 2)
C18_Witness ==
  /\ \E e \in SelfWriters : Runs(e) >= 1
  /\ lastop[1] = "set"
  /\ panic = NoPanic

(* C19: a computed or effect node has RECURSED_CHECK set exactly while its *)
(* own body is executing: at every point observed inside a body the nodes  *)
(* with RECURSED_CHECK are the nodes on the call stack, and between        *)
(* operations, when no body executes, no node has the flag.                *)
C19_RecursedCheckIffExecuting ==
  panic = NoPanic =>
    /\ Checked(Sys) = {}
    /\ \A i \in Probes : log[i][5] = log[i][6]
C19_Witness ==
  /\ panic = NoPanic
  /\ \E i \in Probes : Cardinality(log[i][6]) >= 2 /\ log[i][5] = log[i][6]

(* C20: between operations every Signal has MUTABLE set, every Computed    *)
(* and every Effect has MUTABLE clear, and every Effect in the arena has   *)
(* WATCHING set.                                                           *)
FlagsOfSignals ==
  \A k \in DOMAIN nodes : nodes[k].kind = "Signal" => contains(nodes[k].flags, MUTABLE)
FlagsOfEffects ==
  \A k \in DOMAIN nodes : nodes[k].kind = "Effect" => ~contains(nodes[k].flags, MUTABLE)
Evaluated(k) == nodes[k].value # NoVal
Stopped(k) == nodes[k].flags = NONE
TriggerDeps == {handles[i] : i \in {lastop[2][j][2][2] : j \in {n \in 1..Len(lastop[2]) : lastop[2][n][1] = "eval"}}}
Subscribers(d) ==
  {k \in EffectsOf(before) :
     \E l \in DOMAIN prior.links : prior.links[l].dep = d /\ prior.links[l].sub = k}
Triggered1 == lastop[1] = "trigger" /\ prior.batch_depth = 0
C21_TriggerReruns ==
  Triggered1 =>
    /\ panic = NoPanic
    /\ \A d \in TriggerDeps : \A k \in Subscribers(d) : Runs(k) = 1
C21_Witness ==
  /\ Triggered1
  /\ panic = NoPanic
  /\ Cardinality(TriggerDeps) = 2
  /\ \E k \in EffectsOf(before) : \A d \in TriggerDeps : k \in Subscribers(d) /\ Runs(k) = 1

(* C22: when trigger(f) has returned, the throw-away subscriber is not in  *)
(* the node arena and no link to it is left in the link arena or in a      *)
(* subscriber list, however many sources f read; a trigger that read       *)
(* nothing changes no flag and runs no effect, in a batch or outside.      *)
ThrowAway == prior.next_node
LinksTo(k) == {l \in DOMAIN links : links[l].sub = k}
SubscriberLists(k) ==
  {d \in DOMAIN nodes : nodes[d].subs # None /\ nodes[d].subs \in DOMAIN links
                          /\ links[nodes[d].subs_tail].sub = k}
FlagsKept == \A k \in DOMAIN nodes : k \in DOMAIN before /\ nodes[k].flags = before[k].flags
C22_TriggerLeavesNothing ==
  lastop[1] = "trigger" =>
    /\ panic = NoPanic
    /\ ThrowAway \notin DOMAIN nodes
    /\ LinksTo(ThrowAway) = {}
    /\ SubscriberLists(ThrowAway) = {}
    /\ TriggerDeps = {} => (FlagsKept /\ \A k \in DOMAIN nodes : Runs(k) = 0)
C22_Witness ==
  /\ lastop[1] = "trigger"
  /\ panic = NoPanic
  /\ TriggerDeps = {}
  /\ \E k \in DOMAIN nodes : nodes[k].kind = "Effect" /\ contains(nodes[k].flags, PENDING)

(* C23: a signal read inside the body of scope(f), called from the body of *)
(* an effect, subscribes that effect: a later write to the signal, outside *)
(* a batch, re-runs the effect.                                            *)
ScopeReads(body, env) ==
  {env[i] : i \in {x \in 1..Len(env) :
                     \E n \in 1..Len(body) :
                        /\ body[n][1] = "scope"
                        /\ \E m \in 1..Len(body[n][2]) : body[n][2][m] = Read(x)}}
Unbatched == lastop[1] = "set" /\ prior.batch_depth = 0
C23_ScopeReadSubscribesEffect ==
  (Unbatched /\ panic = NoPanic) =>
    \A e \in EffectsOf(before) :
       Target \in ScopeReads(before[e].body, before[e].env) => Runs(e) = 1

(* C24: a computed that has a value and loses its last subscriber loses    *)
(* all its own dependency links and is marked dirty; a later write to a    *)
(* former source does not run its getter; the next read recomputes it.     *)
Unwatched(ns, ls, k) ==
  /\ k \in DOMAIN ns
  /\ ns[k].kind = "Computed"
  /\ ns[k].value # NoVal
  /\ ns[k].subs = None
  /\ ns[k].deps = None
  /\ contains(ns[k].flags, DIRTY)
  /\ \A l \in DOMAIN ls : ls[l].sub # k /\ ls[l].dep # k
LostLastSubscriber(k) ==
  /\ k \in DOMAIN before /\ k \in DOMAIN nodes
  /\ before[k].kind = "Computed"
  /\ before[k].value # NoVal
  /\ before[k].subs # None
  /\ nodes[k].subs = None
ReadTarget == handles[lastop[2][2]]
C24_UnwatchedComputed ==
  panic = NoPanic =>
    /\ \A k \in DOMAIN nodes : LostLastSubscriber(k) => Unwatched(nodes, links, k)
    /\ lastop[1] = "set" =>
          \A k \in DOMAIN before : Unwatched(before, prior.links, k) =>
             (Evals(k) = 0 /\ Unwatched(nodes, links, k))
    /\ (lastop[1] = "eval" /\ lastop[2][1] = "get" /\ Unwatched(before, prior.links, ReadTarget)) =>
          (Evals(ReadTarget) = 1 /\ UpToDate(nodes, ReadTarget) /\ nodes[ReadTarget].deps # None)
C24_Witness ==
  /\ panic = NoPanic
  /\ lastop[1] = "eval"
  /\ lastop[2][1] = "get"
  /\ Unwatched(before, prior.links, ReadTarget)
  /\ lastop2[1] = "set"
  /\ Evals(ReadTarget) = 1
  /\ nodes[ReadTarget].value # before[ReadTarget].value

(* C25: a memo's getter does not run when the memo is created; it runs at  *)
(* the first read; a read of a memo none of whose sources was written      *)
(* since its last read runs no getter of the memo or of a memo it reads; a *)
(* write runs a getter only in the flush of an effect that reads the memo, *)
(* never in a batch and never without such an effect.                      *)
ReadBy(ns, e) == Inputs(ns, e) \cup UNION {UpstreamOf(ns, d) : d \in Inputs(ns, e)}
Cached(k) == before[k].value # NoVal /\ k \notin stale0
RECURSIVE ThroughPlain(_, _, _)
ThroughPlain(ns, d, n) ==
  IF n = 0 \/ d \notin DOMAIN ns THEN {}
  ELSE IF ns[d].kind = "Computed" /\ ~ns[d].memo
  THEN {d} \cup UNION {ThroughPlain(ns, x, n - 1) : x \in ReadsOfExpr(ns[d].body, ns[d].env)}
  ELSE {d}
SeenPlainly(ns, e) == UNION {ThroughPlain(ns, d, Cardinality(DOMAIN ns)) : d \in Inputs(ns, e)}
Writers(ns) ==
  {e \in EffectsOf(ns) : \E i \in 1..Len(ns[e].body) : ns[e].body[i][1] = "set"}
RanAt(e) == CHOOSE i \in 1..Len(log) : log[i] = <<"run", e>>
ProbeAfter(i, n) ==
  CHOOSE j \in Probes : j > i /\ Cardinality({x \in Probes : x > i /\ x < j}) = n - 1
RunsIn(lo, hi) ==
  SelectSeq(SubSeq(log, lo + 1, hi - 1), LAMBDA ev : ev[1] = "run")
InOrder(e) ==
  LET i == RanAt(e)
      first == RunsIn(i, ProbeAfter(i, 1))
      second == RunsIn(ProbeAfter(i, 1), ProbeAfter(i, 2))
  IN /\ Cardinality({j \in Probes : j > i}) = 2
     /\ Len(first) >= 3
     /\ Occurrences(first, first[1]) = 1
     /\ Occurrences(first, first[2]) = 2
     /\ second = <<first[1]>>
C27_ReentrantFlush ==
  scenario = "sidefx" =>
    /\ panic = NoPanic
    /\ batch_depth = 0 => (notify_index = 0 /\ queued_length = 0)
    /\ \A e \in Writers(nodes) : Runs(e) <= 1 /\ (Runs(e) = 1 => InOrder(e))
    /\ Unbatched => \A e \in LiveEffects : Target \in Inputs(before, e) => Runs(e) = 1
C27_Witness ==
  /\ scenario = "sidefx"
  /\ panic = NoPanic
  /\ lastop[1] = "set"
  /\ \E e \in Writers(nodes) : Runs(e) = 1 /\ InOrder(e)
  /\ \E e \in LiveEffects \ Writers(nodes) : Runs(e) = 1

(***************************************************************************)
(* C28: every use_context<T>() of the last operation returned the value    *)
(* provided for T by the nearest node of the chain current_scope, parent,  *)
(* ..., root that provided T, and None when no node of the chain did;      *)
(* has_context<T>() answered true exactly when that lookup is Some.  So a   *)
(* provide_context in a child shadows the parent's value in the child,     *)
(* leaves the parent's own view alone, and a second provide_context<T> in  *)
(* the same scope replaces the first.                                      *)
(***************************************************************************)
Provides(i, node, ty) ==
  {j \in 1..(i - 1) : log[j][1] = "provide" /\ log[j][2] = node /\ log[j][3] = ty}

(* what node provides for ty when event i of the log happens *)
ProvidedAt(i, node, ty) ==
  IF Provides(i, node, ty) # {}
  THEN log[CHOOSE j \in Provides(i, node, ty) : \A k \in Provides(i, node, ty) : k <= j][4]
  ELSE IF node \in DOMAIN prior.contexts /\ ty \in DOMAIN prior.contexts[node]
  THEN prior.contexts[node][ty]
  ELSE NoVal

NearestProvided(i, chain, ty) ==
  LET providers == {n \in 1..Len(chain) : ProvidedAt(i, chain[n], ty) # NoVal}
  IN IF providers = {} THEN NoVal
     ELSE ProvidedAt(i, chain[CHOOSE n \in providers : \A m \in providers : n <= m], ty)

Lookups == {i \in 1..Len(log) : log[i][1] \in {"use", "has"}}

C28_ContextLookup ==
  panic = NoPanic =>
    \A i \in Lookups :
      /\ log[i][2] # <<>>
      /\ log[i][2][Len(log[i][2])] = Root
      /\ log[i][1] = "use" => log[i][4] = NearestProvided(i, log[i][2], log[i][3])
      /\ log[i][1] = "has" => log[i][4] = (NearestProvided(i, log[i][2], log[i][3]) # NoVal)

(* a child looked up its own shadowing value, and afterwards its parent    *)
(* still saw the value it had before                                       *)
C28_Witness ==
  /\ panic = NoPanic
  /\ \E i, j \in Lookups :
       /\ i < j
       /\ log[i][1] = "use" /\ log[j][1] = "use" /\ log[i][3] = log[j][3]
       /\ Len(log[i][2]) = Len(log[j][2]) + 1
       /\ Tail(log[i][2]) = log[j][2]
       /\ log[i][4] # NoVal /\ log[j][4] # NoVal /\ log[i][4] # log[j][4]
       /\ Provides(i, log[i][2][1], log[i][3]) # {}

(***************************************************************************)
(* C29: scoped(f) captures the scope current at its call; each call of the *)
(* closure it returns makes a fresh scope node whose parent is the         *)
(* captured scope, whatever scope is current at the call, runs f with the  *)
(* new node as current scope and puts the previous current scope back;     *)
(* the new scope is gone once its handle or the captured parent has been   *)
(* disposed.                                                               *)
(***************************************************************************)
Invocations == {i \in 1..Len(log) : log[i][1] = "invoked"}

Returns(i) ==
  {j \in (i + 1)..Len(log) : log[j][1] = "returned" /\ log[j][3] = log[i][3]}

C29_Captured ==
  \A i \in 1..Len(log) :
    log[i][1] = "scoped" => /\ log[i][2] \in 1..Len(factories)
                            /\ factories[log[i][2]].parent_scope = log[i][3]
                            /\ (lastop[1] = "scoped" => log[i][3] = prior.current_scope)

C29_Invoked ==
  /\ lastop[1] = "invoke" => panic = NoPanic /\ Invocations # {}
  /\ panic = NoPanic =>
       \A i \in Invocations :
         /\ log[i][3] \notin DOMAIN prior.nodes
         /\ \A j \in Invocations : j # i => log[j][3] # log[i][3]
         /\ log[i][5] = factories[log[i][2]].parent_scope
         /\ (i < Len(log) /\ log[i + 1][1] = "use") => log[i + 1][2][1] = log[i][3]
         /\ Returns(i) # {}
  /\ (panic = NoPanic /\ lastop[1] = "invoke") => current_scope = prior.current_scope

C29_Destroyed ==
  (lastop[1] = "dispose" /\ panic = NoPanic) =>
    \A f \in 1..Len(prior.factories) : \A n \in prior.factories[f].made :
      (n = handles[lastop[2]] \/ prior.factories[f].parent_scope = handles[lastop[2]])
        => n \notin DOMAIN nodes

C29_ScopedFactory == C29_Captured /\ C29_Invoked /\ C29_Destroyed

(***************************************************************************)
(* C30: in every reachable state a signal is Writing only if exactly one   *)
(* write guard and no read guard on it is outstanding, and Reading(n)      *)
(* exactly when n >= 1 read guards (from read or peek) are outstanding;    *)
(* with no guard outstanding it is Unused.  Taking a read guard on a       *)
(* signal that is Writing, or a write guard or a set on one that is        *)
(* Reading(n) or Writing, is a fatal error.                                *)
(***************************************************************************)
Outstanding(kind, k) ==
  Cardinality({g \in 1..Len(guards) : guards[g] = [kind |-> kind, node |-> k]})

LiveSignals == {k \in DOMAIN nodes : nodes[k].kind = "Signal"}

C30_StateCountsGuards ==
  \A k \in LiveSignals :
    /\ BorrowState(Sys, k) = Writing =>
         Outstanding("write", k) = 1 /\ Outstanding("read", k) = 0
    /\ \A n \in 1..(Len(guards) + 1) :
         BorrowState(Sys, k) = Reading(n) <=> Outstanding("read", k) = n
    /\ BorrowState(Sys, k) \in {Unused, Writing} \cup {Reading(n) : n \in 1..Len(guards)}
    /\ (Outstanding("read", k) = 0 /\ Outstanding("write", k) = 0) =>
         BorrowState(Sys, k) = Unused

C30_Fatal ==
  /\ (lastop[1] \in {"read", "peek"} /\ BorrowState(prior, handles[lastop[2]]) = Writing)
       => panic # NoPanic
  /\ (lastop[1] \in {"write", "set"} /\ BorrowState(prior, handles[lastop[2]]) # Unused)
       => panic # NoPanic

C30_BorrowStateMachine == C30_StateCountsGuards /\ C30_Fatal

(* two read guards were out, one has just been dropped, one is left *)
C30_Witness ==
  /\ panic = NoPanic
  /\ lastop[1] = "drop"
  /\ \E k \in LiveSignals : /\ BorrowState(prior, k) = Reading(2)
                              /\ BorrowState(Sys, k) = Reading(1)
                              /\ Outstanding("read", k) = 1

(***************************************************************************)
(* C31: set and update both take the exclusive write borrow: either one,   *)
(* called on a signal on which a read guard or a write guard is            *)
(* outstanding, is a fatal borrow violation, and after a call that         *)
(* returned the signal is Unused again.                                    *)
(***************************************************************************)
C31_UpdateBorrows ==
  lastop[1] \in {"set", "update"} =>
    /\ BorrowState(prior, handles[lastop[2]]) # Unused => panic # NoPanic
    /\ panic = NoPanic => BorrowState(Sys, handles[lastop[2]]) = Unused

(***************************************************************************)
(* C32: get, read or set through a handle whose signal was removed with    *)
(* the scope that owned it fails with the access-after-disposal error, and *)
(* leaves nodes, links and the effect queue as they were.                  *)
(***************************************************************************)
Accessed ==
  IF lastop[1] = "eval" THEN handles[lastop[2][2]]
  ELSE IF lastop[1] \in {"set", "read"} THEN handles[lastop[2]]
  ELSE None

C32_AccessAfterDisposal ==
  (Accessed # None /\ Accessed \notin DOMAIN prior.nodes) =>
    /\ panic = "Signal accessed after cleanup"
    /\ nodes = prior.nodes
    /\ links = prior.links
    /\ queued = prior.queued
    /\ queued_length = prior.queued_length

(***************************************************************************)
(* C33: a poll of a task whose scope or effect has been disposed, or (an   *)
(* effect) run again, since the task was spawned executes nothing of the   *)
(* task's body; a poll of an unfinished task whose scope is alive and has  *)
(* not run again executes the next piece of its body.                      *)
(***************************************************************************)
Polled == lastop[2]

C33_AsyncCancellation ==
  (lastop[1] = "poll" /\ panic = NoPanic) =>
    /\ Polled \in cancelled0 => log = <<>> /\ tasks[Polled].done
    /\ Polled \notin cancelled0 =>
         /\ log # <<>>
         /\ log[1] = <<"task", Polled, prior.tasks[Polled].pc>>
         /\ tasks[Polled].pc = prior.tasks[Polled].pc + 1

(* the tasks of a disposed scope were polled and did nothing, those of the *)
(* live scope ran to their end                                             *)
C33_Witness ==
  /\ panic = NoPanic
  /\ lastop[1] = "poll"
  /\ \E i \in cancelled0 : tasks[i].done /\ tasks[i].pc = 1
  /\ \E j \in 1..Len(tasks) : j \notin cancelled /\ tasks[j].done /\ tasks[j].pc > Len(tasks[j].segs)

(***************************************************************************)
(* C34: when propagate visits a subscriber that is executing               *)
(* (RECURSED_CHECK), is neither DIRTY nor PENDING, and is visited through  *)
(* a link of its current dependency list, its flags become                 *)
(* flags | RECURSED | PENDING and the walk goes on into its subscribers    *)
(* exactly if it is MUTABLE; when it visits a node with RECURSED and       *)
(* without RECURSED_CHECK, RECURSED is replaced by PENDING.                *)
(***************************************************************************)
Visits == {i \in 1..Len(visited) : TRUE}

C34_PropagateReentry ==
  \A i \in Visits :
    /\ (/\ contains(visited[i].flags, RECURSED_CHECK)
        /\ ~intersects(visited[i].flags, DIRTY \cup PENDING)
        /\ visited[i].valid)
         => /\ visited[i].became = visited[i].flags \cup RECURSED \cup PENDING
            /\ visited[i].local = visited[i].flags \cap MUTABLE
    /\ (contains(visited[i].flags, RECURSED) /\ ~contains(visited[i].flags, RECURSED_CHECK))
         => visited[i].became = (visited[i].flags \ RECURSED) \cup PENDING

(***************************************************************************)
(* C35: when flush runs a dirty effect E again, then at the moment its     *)
(* callable is invoked every callback registered during the previous run,  *)
(* on E and on the nodes below it, has run, every node the previous run    *)
(* created under E is out of the arena with its links, and the child list  *)
(* of E is empty; an effect that is PENDING and whose check_dirty is clean *)
(* runs neither its callbacks nor its callable and keeps its children.     *)
(***************************************************************************)
Reruns == {i \in 1..Len(entered) : entered[i].tag = "rerun"}
Skips == {i \in 1..Len(entered) : entered[i].tag = "skip"}

C35_Skipped ==
  /\ panic = NoPanic /\ lastop[1] = "set"
  /\ \E i \in Skips : entered[i].children # {} /\ entered[i].registered # {}

(***************************************************************************)
(* C36: when a tracking pass of a computed or an effect completes, the     *)
(* signals and computeds with a link in its dependency list are exactly    *)
(* those it read during the pass, in any order and with any repetition; a  *)
(* source read in an earlier pass and not in this one is unlinked, so a    *)
(* write to it does not reach the subscriber.                              *)
(***************************************************************************)
Passes == {i \in 1..Len(entered) : entered[i].tag = "pass"}

C36_DynamicDependencies ==
  \A i \in Passes :
    /\ entered[i].deps = entered[i].reads
    /\ entered[i].marks = entered[i].reads

(***************************************************************************)
(* C37: a check_dirty walk that re-evaluates a computed whose getter       *)
(* starts a nested check_dirty or a nested propagate still finds on the    *)
(* stack every continuation link it pushed: it never pops from an empty    *)
(* stack, and the link it pops when it leaves a node is the link it pushed *)
(* on entering that node, whose dep is that node.                          *)
(***************************************************************************)
Pops == {i \in 1..Len(entered) : entered[i].tag = "pop"}

C37_ReentrantCheckDirty ==
  /\ panic # "unwrap on None: stack.pop in check_dirty"
  /\ \A i \in Pops : entered[i].dep = entered[i].sub


(***************************************************************************)
(* C38: when the creation of an effect, the re-run of an effect, scope(f), *)
(* the call of a scoped factory, the evaluation of a computed, trigger(f)  *)
(* or one poll of a task returns normally, active_sub and current_scope    *)
(* are what they were immediately before it started, however these         *)
(* operations are nested.                                                  *)
(***************************************************************************)
Restorations == {i \in 1..Len(entered) : entered[i].tag = "ctx"}

C38_ContextRestored ==
  \A i \in Restorations :
    /\ entered[i].sub = entered[i].sub0
    /\ entered[i].scope = entered[i].scope0

(* a re-run, and inside it a scope, an effect, a factory call and a        *)
(* computed, each started under another one                                *)
C38_Witness ==
  /\ panic = NoPanic /\ lastop[1] = "set"
  /\ \E i \in Restorations : entered[i].op = "run"
  /\ {"scope", "effect", "scoped", "computed"}
        \subseteq {entered[i].op : i \in {j \in Restorations : entered[j].scope0 # Root}}
  /\ \E i \in Restorations : entered[i].sub0 \notin {None, entered[i].scope0}


(***************************************************************************)
(* C39: after every public operation that returns, the dep and the sub of  *)
(* every link in the link arena are nodes of the node arena: removing a    *)
(* node (disposal, the purge of children on a re-run, the throw-away node  *)
(* of trigger) removes every link in which it is dep or sub.               *)
(***************************************************************************)
Dangling == {l \in DOMAIN links : links[l].dep \notin DOMAIN nodes \/ links[l].sub \notin DOMAIN nodes}

C39_NoDanglingLinks == panic = NoPanic => Dangling = {}


(***************************************************************************)
(* C40: every callback registered with on_cleanup runs exactly once, at    *)
(* the next re-run of its owner or at the disposal of the owner or of an   *)
(* ancestor, and no callback is dropped: when an operation has removed the *)
(* node of an owner, each callback that was registered on it has run once  *)
(* in that operation and none is left registered; this includes the        *)
(* children of an effect that is purged because it lost its last           *)
(* subscriber.                                                             *)
(***************************************************************************)
RanFor(k) == {i \in 1..Len(log) : log[i][1] = "cleanup" /\ log[i][2] = k}

C40_CleanupExactlyOnce ==
  panic = NoPanic =>
    /\ DOMAIN cleanups \subseteq DOMAIN nodes
    /\ \A k \in DOMAIN prior.cleanups \ DOMAIN nodes :
          Cardinality(RanFor(k)) = Len(prior.cleanups[k])


=============================================================================
